---- MODULE Spec2Model ----
(***************************************************************************)
(* gouniverse/dataobject: the DataObject container (DataObject.go), its    *)
(* constructors (constructors.go) and the conversion helpers               *)
(* (functions.go).                                                         *)
(*                                                                         *)
(* A Go string is a sequence of bytes; here a sequence of one-byte atoms.  *)
(* A Go map is a record [nil, kv]: nil tells the nil map from the empty    *)
(* one, kv is the function from its keys to its values.  An error is a     *)
(* TLA+ string, NoErr being Go's nil error.                                *)
(***************************************************************************)
EXTENDS Integers, Sequences, FiniteSets, TLC

VARIABLES
    data,          \* DataObject.data         map[string]string
    dataChanged,   \* DataObject.dataChanged  map[string]string
    transformers,  \* DataObject.transformers map[string]TransformerInterface
    last,          \* the most recent call on the container: name, arguments, results
    mem,           \* the same maps as objects in memory: which map each field and
                   \* each variable of the caller refers to (kept by SpecAlias only)
    run            \* two goroutines sharing the container: where each one is in
                   \* the call it is making (kept by SpecRace only)

vars == <<data, dataChanged, transformers, last, mem, run>>

(***************************************************************************)
(* Bounds and alphabets                                                    *)
(***************************************************************************)
\* how many of the strings of ValueList are used as attribute values
MaxVals == 3

QUOTE  == "\""
BSLASH == "\\"
\* a byte that is no valid UTF-8 (0xFF), and the rune U+FFFD
BAD    == "0xFF"
REPL   == "U+FFFD"

propertyId == <<"i", "d">>

Keys == {propertyId, <<"a", QUOTE>>}

ValueList == << <<>>, <<"x">>, <<BAD>>, <<BSLASH, "y">>, <<"z">> >>

Values == {ValueList[i] : i \in 1..MaxVals}

\* what uid.HumanUid() can return: some non-empty string
GeneratedIDs == {<<"x">>}

NoErr == ""

(***************************************************************************)
(* Go maps                                                                 *)
(***************************************************************************)
EmptyKV == [k \in {} |-> <<>>]

NilMap == [nil |-> TRUE, kv |-> EmptyKV]

EmptyMap == [nil |-> FALSE, kv |-> EmptyKV]

MkMap(f) == [nil |-> FALSE, kv |-> f]

MapLen(m) == Cardinality(DOMAIN m.kv)

MapHas(m, k) == k \in DOMAIN m.kv

\* m[k]: the zero value for an absent key, also on a nil map
MapGet(m, k) == IF k \in DOMAIN m.kv THEN m.kv[k] ELSE <<>>

\* m[k] = v on a non-nil map
MapPut(m, k, v) ==
    MkMap([x \in (DOMAIN m.kv) \cup {k} |-> IF x = k THEN v ELSE m.kv[x]])

\* every map[string]string a caller can pass: nil, or any map over Keys
StringMaps ==
    {NilMap} \cup
    UNION {{MkMap(f) : f \in [D -> Values]} : D \in SUBSET Keys}

(***************************************************************************)
(* Transformers: a caller-supplied pair Serialize/Deserialize.  "enc" is   *)
(* a binary encoder that knows one word: it stores "x" as the byte 0xFF    *)
(* and refuses everything else, in both directions.  "tag" is a second     *)
(* implementation, which marks what it stores with a leading "#"; a caller *)
(* may offer it where "enc" is registered.                                 *)
(***************************************************************************)
NoTransformer == "nil"

TransformerKinds == {"enc"}

OtherTransformerKinds == {"tag"}

Serialize(t, v) ==
    IF t = "tag" THEN [val |-> <<"#">> \o v, err |-> NoErr]
    ELSE IF v = <<"x">>
    THEN [val |-> <<BAD>>, err |-> NoErr]
    ELSE [val |-> <<>>, err |-> "enc: cannot serialize"]

Deserialize(t, v) ==
    IF t = "tag"
    THEN IF v # <<>> /\ Head(v) = "#"
         THEN [val |-> Tail(v), err |-> NoErr]
         ELSE [val |-> <<>>, err |-> "tag: cannot deserialize"]
    ELSE IF v = <<BAD>>
    THEN [val |-> <<"x">>, err |-> NoErr]
    ELSE [val |-> <<>>, err |-> "enc: cannot deserialize"]

(***************************************************************************)
(* DataObject.go: the methods, as functions of the object o                *)
(***************************************************************************)
ZeroObject == [data |-> NilMap, dataChanged |-> NilMap, transformers |-> NilMap]

\* Init that also recreates a map holding a single entry
Init_Threshold(o) ==
    [data         |-> IF MapLen(o.data) < 2 THEN EmptyMap ELSE o.data,
     dataChanged  |-> IF MapLen(o.dataChanged) < 2 THEN EmptyMap ELSE o.dataChanged,
     transformers |-> IF MapLen(o.transformers) < 2 THEN EmptyMap ELSE o.transformers]

Init(o) ==
    [data         |-> IF MapLen(o.data) < 1 THEN EmptyMap ELSE o.data,
     dataChanged  |-> IF MapLen(o.dataChanged) < 1 THEN EmptyMap ELSE o.dataChanged,
     transformers |-> IF MapLen(o.transformers) < 1 THEN EmptyMap ELSE o.transformers]

GetTransformer(o, key) ==
    IF MapHas(o.transformers, key) THEN o.transformers.kv[key] ELSE NoTransformer

\* SetTransformer that lets the newcomer take the place
SetTransformer_Overwrites(o, key, transformer) ==
    IF o.transformers.nil
    THEN [o |-> o, err |-> "panic: assignment to entry in nil map"]
    ELSE [o |-> [o EXCEPT !.transformers = MapPut(@, key, transformer)],
          err |-> NoErr]

\* an assignment to an entry of a nil map panics
SetTransformer(o, key, transformer) ==
    IF MapHas(o.transformers, key)
    THEN [o |-> o, err |-> "transformer already set"]
    ELSE IF o.transformers.nil
         THEN [o |-> o, err |-> "panic: assignment to entry in nil map"]
         ELSE [o |-> [o EXCEPT !.transformers = MapPut(@, key, transformer)],
               err |-> NoErr]

\* Set that records a change only when the value differs from the stored one
Set_OnlyIfChanged(o, key, value) ==
    LET i == Init(o)
        t == GetTransformer(i, key)
        s == IF t # NoTransformer THEN Serialize(t, value)
                                  ELSE [val |-> value, err |-> NoErr]
    IN  IF s.err # NoErr
        THEN [o |-> i, err |-> s.err]
        ELSE IF MapHas(i.data, key) /\ i.data.kv[key] = s.val
        THEN [o |-> i, err |-> NoErr]
        ELSE [o |-> [i EXCEPT !.data = MapPut(@, key, s.val),
                              !.dataChanged = MapPut(@, key, s.val)],
              err |-> NoErr]

\* Set that writes the value first and serializes afterwards
Set_WritesFirst(o, key, value) ==
    LET i == Init(o)
        w == [i EXCEPT !.data = MapPut(@, key, value),
                       !.dataChanged = MapPut(@, key, value)]
        t == GetTransformer(i, key)
        s == IF t # NoTransformer THEN Serialize(t, value)
                                  ELSE [val |-> value, err |-> NoErr]
    IN  IF s.err # NoErr
        THEN [o |-> w, err |-> s.err]
        ELSE [o |-> [i EXCEPT !.data = MapPut(@, key, s.val),
                              !.dataChanged = MapPut(@, key, s.val)],
              err |-> NoErr]

\* Set that forgets to record the change
Set_ValuesOnly(o, key, value) ==
    LET i == Init(o)
        t == GetTransformer(i, key)
        s == IF t # NoTransformer THEN Serialize(t, value)
                                  ELSE [val |-> value, err |-> NoErr]
    IN  IF s.err # NoErr
        THEN [o |-> i, err |-> s.err]
        ELSE [o |-> [i EXCEPT !.data = MapPut(@, key, s.val)], err |-> NoErr]

\* Set that records the value as given instead of the serialized one
Set_RawChanged(o, key, value) ==
    LET i == Init(o)
        t == GetTransformer(i, key)
        s == IF t # NoTransformer THEN Serialize(t, value)
                                  ELSE [val |-> value, err |-> NoErr]
    IN  IF s.err # NoErr
        THEN [o |-> i, err |-> s.err]
        ELSE [o |-> [i EXCEPT !.data = MapPut(@, key, s.val),
                              !.dataChanged = MapPut(@, key, value)],
              err |-> NoErr]

\* Set that asks the transformer but stores the value as given
Set_StoresRaw(o, key, value) ==
    LET i == Init(o)
        t == GetTransformer(i, key)
        s == IF t # NoTransformer THEN Serialize(t, value)
                                  ELSE [val |-> value, err |-> NoErr]
    IN  IF s.err # NoErr
        THEN [o |-> i, err |-> s.err]
        ELSE [o |-> [i EXCEPT !.data = MapPut(@, key, value),
                              !.dataChanged = MapPut(@, key, value)],
              err |-> NoErr]

\* Set that records the change without storing the value
Set_ChangedOnly(o, key, value) ==
    LET i == Init(o)
        t == GetTransformer(i, key)
        s == IF t # NoTransformer THEN Serialize(t, value)
                                  ELSE [val |-> value, err |-> NoErr]
    IN  IF s.err # NoErr
        THEN [o |-> i, err |-> s.err]
        ELSE [o |-> [i EXCEPT !.dataChanged = MapPut(@, key, s.val)],
              err |-> NoErr]

Set(o, key, value) ==
    LET i == Init(o)
        t == GetTransformer(i, key)
        s == IF t # NoTransformer THEN Serialize(t, value)
                                  ELSE [val |-> value, err |-> NoErr]
    IN  IF s.err # NoErr
        THEN [o |-> i, err |-> s.err]
        ELSE [o |-> [i EXCEPT !.data = MapPut(@, key, s.val),
                              !.dataChanged = MapPut(@, key, s.val)],
              err |-> NoErr]

\* Get that creates the entry it was asked for
Get_Inserts(o, key) ==
    LET i == Init(o)
        value == MapGet(i.data, key)
        t == GetTransformer(i, key)
        d == IF t # NoTransformer THEN Deserialize(t, value)
                                  ELSE [val |-> value, err |-> NoErr]
        w == [i EXCEPT !.data = MapPut(@, key, value)]
    IN  IF d.err # NoErr
        THEN [o |-> w, val |-> <<>>, err |-> d.err]
        ELSE [o |-> w, val |-> d.val, err |-> NoErr]

\* Get that falls back to the stored value when Deserialize fails
Get_RawOnError(o, key) ==
    LET i == Init(o)
        value == MapGet(i.data, key)
        t == GetTransformer(i, key)
        d == IF t # NoTransformer THEN Deserialize(t, value)
                                  ELSE [val |-> value, err |-> NoErr]
    IN  IF d.err # NoErr
        THEN [o |-> i, val |-> value, err |-> d.err]
        ELSE [o |-> i, val |-> d.val, err |-> NoErr]

Get(o, key) ==
    LET i == Init(o)
        value == MapGet(i.data, key)
        t == GetTransformer(i, key)
        d == IF t # NoTransformer THEN Deserialize(t, value)
                                  ELSE [val |-> value, err |-> NoErr]
    IN  IF d.err # NoErr
        THEN [o |-> i, val |-> <<>>, err |-> d.err]
        ELSE [o |-> i, val |-> d.val, err |-> NoErr]

ID(o) == Get(o, propertyId)

\* SetID that keeps an id the container already has
SetID_IfAbsent(o, id) ==
    IF MapHas(o.data, propertyId)
    THEN [o |-> Init(o), err |-> NoErr]
    ELSE Set(o, propertyId, id)

SetID(o, id) == Set(o, propertyId, id)

\* Data that hands out the field as it is
Data_NoInit(o) == [o |-> o, val |-> o.data]

Data(o) == LET i == Init(o) IN [o |-> i, val |-> i.data]

DataChanged(o) == LET i == Init(o) IN [o |-> i, val |-> i.dataChanged]

\* MarkAsNotDirty that empties the wrong map
MarkAsNotDirty_ClearsData(o) == [o EXCEPT !.data = EmptyMap]

MarkAsNotDirty(o) == [o EXCEPT !.dataChanged = EmptyMap]

\* IsDirty that looks at the wrong map
IsDirty_OnData(o) == LET i == Init(o) IN [o |-> i, val |-> MapLen(i.data) > 0]

IsDirty(o) == LET i == Init(o) IN [o |-> i, val |-> MapLen(i.dataChanged) > 0]

\* the range loop over data: one Set per entry, its error dropped
RECURSIVE SetEntries(_, _, _)
SetEntries(o, m, todo) ==
    IF todo = {}
    THEN o
    ELSE LET k == CHOOSE x \in todo : TRUE
         IN  SetEntries(Set(o, k, m.kv[k]).o, m, todo \ {k})

\* SetData that gives up at the first entry Set refuses
RECURSIVE SetEntriesUntilError(_, _, _)
SetEntriesUntilError(o, m, todo) ==
    IF todo = {}
    THEN o
    ELSE LET k == CHOOSE x \in todo : TRUE
             r == Set(o, k, m.kv[k])
         IN  IF r.err # NoErr THEN r.o ELSE SetEntriesUntilError(r.o, m, todo \ {k})

SetData_StopsAtError(o, m) == SetEntriesUntilError(o, m, DOMAIN m.kv)

\* SetData that replaces the values instead of setting each entry
SetData_Replaces(o, m) ==
    [Init(o) EXCEPT !.data = MkMap(m.kv), !.dataChanged = MkMap(m.kv)]

\* SetData that starts its own record of changes
SetData_FreshChanges(o, m) ==
    SetEntries([Init(o) EXCEPT !.dataChanged = EmptyMap], m, DOMAIN m.kv)

SetData(o, m) == SetEntries(o, m, DOMAIN m.kv)

\* Hydrate that also forgets the recorded changes
Hydrate_ResetsChanged(o, m) == [Init(o) EXCEPT !.data = m, !.dataChanged = EmptyMap]

\* Hydrate that records what it stores as changes
Hydrate_MarksDirty(o, m) == [Init(o) EXCEPT !.data = m, !.dataChanged = m]

\* Hydrate that serializes the values of the keys that have a transformer
Hydrate_Serializes(o, m) ==
    LET i == Init(o)
    IN  [i EXCEPT !.data =
            [nil |-> m.nil,
             kv  |-> [k \in DOMAIN m.kv |->
                        IF GetTransformer(i, k) # NoTransformer
                        THEN Serialize(GetTransformer(i, k), m.kv[k]).val
                        ELSE m.kv[k]]]]

Hydrate(o, m) == [Init(o) EXCEPT !.data = m]

(***************************************************************************)
(* encoding/json, as far as the container uses it.  A JSON text is a Go    *)
(* string; a decoded value is string, bool, null or object (a function     *)
(* from member names to decoded values), or a number: the texts decoded    *)
(* here hold numbers without sign, fraction or exponent.                   *)
(***************************************************************************)
\* the bytes in the order of their values
ByteOrder ==
    <<" ", QUOTE, ",", "/", ":", BSLASH, "a", "d", "e", "f", "i", "l", "m", "n",
      "p", "r", "s", "t", "u", "x", "y", "z", "{", "}", REPL, BAD>>

Rank(c) == CHOOSE i \in 1..Len(ByteOrder) : ByteOrder[i] = c

RECURSIVE StrLess(_, _)
StrLess(a, b) ==
    IF b = <<>> THEN FALSE
    ELSE IF a = <<>> THEN TRUE
    ELSE IF Head(a) = Head(b) THEN StrLess(Tail(a), Tail(b))
    ELSE Rank(Head(a)) < Rank(Head(b))

\* the keys of a map in sorted order
RECURSIVE SortedKeys(_)
SortedKeys(S) ==
    IF S = {} THEN <<>>
    ELSE LET k == CHOOSE x \in S : \A y \in S \ {x} : StrLess(x, y)
         IN  <<k>> \o SortedKeys(S \ {k})

\* a quote and a backslash are escaped, an invalid byte becomes �
EncodeByte(c) ==
    IF c = QUOTE THEN <<BSLASH, QUOTE>>
    ELSE IF c = BSLASH THEN <<BSLASH, BSLASH>>
    ELSE IF c = BAD THEN <<BSLASH, "u", "f", "f", "f", "d">>
    ELSE <<c>>

RECURSIVE EncodeBytes(_)
EncodeBytes(s) ==
    IF s = <<>> THEN <<>> ELSE EncodeByte(Head(s)) \o EncodeBytes(Tail(s))

EncodeString(s) == <<QUOTE>> \o EncodeBytes(s) \o <<QUOTE>>

RECURSIVE EncodeMembers(_, _)
EncodeMembers(kv, ks) ==
    IF ks = <<>> THEN <<>>
    ELSE EncodeString(Head(ks)) \o <<":">> \o EncodeString(kv[Head(ks)])
         \o (IF Len(ks) > 1 THEN <<",">> ELSE <<>>)
         \o EncodeMembers(kv, Tail(ks))

\* json.Marshal of a map[string]string
Marshal(m) ==
    IF m.nil THEN <<"n", "u", "l", "l">>
    ELSE <<"{">> \o EncodeMembers(m.kv, SortedKeys(DOMAIN m.kv)) \o <<"}">>

JString(x) == [t |-> "string", v |-> x]
JBool(b)   == [t |-> "bool", v |-> b]
JNull      == [t |-> "null", v |-> <<>>]
JNumber(n) == [t |-> "number", v |-> n]
JObject(f) == [t |-> "object", v |-> f]
JArray(s)  == [t |-> "array", v |-> s]

Fail == [ok |-> FALSE]

Parsed(v, next) == [ok |-> TRUE, v |-> v, next |-> next]

IsSpace(c) == c = " "

RECURSIVE SkipSpace(_, _)
SkipSpace(t, i) ==
    IF i <= Len(t) /\ IsSpace(t[i]) THEN SkipSpace(t, i + 1) ELSE i

At(t, i, pat) ==
    /\ i + Len(pat) - 1 <= Len(t)
    /\ SubSeq(t, i, i + Len(pat) - 1) = pat

Digits == <<"0", "1", "2", "3", "4", "5", "6", "7", "8", "9">>

IsDigit(c) == \E d \in 1..Len(Digits) : Digits[d] = c

DigitVal(c) == (CHOOSE d \in 1..Len(Digits) : Digits[d] = c) - 1

\* the digits of a number after its first one
RECURSIVE ParseDigits(_, _, _)
ParseDigits(t, j, n) ==
    IF j <= Len(t) /\ IsDigit(t[j])
    THEN ParseDigits(t, j + 1, n * 10 + DigitVal(t[j]))
    ELSE Parsed(JNumber(n), j)

\* a number starts with 0 and stops there, or with 1..9 and more digits
ParseNumber(t, i) ==
    IF t[i] = "0" THEN Parsed(JNumber(0), i + 1)
    ELSE ParseDigits(t, i + 1, DigitVal(t[i]))

\* the bytes of a string literal after its opening quote
RECURSIVE ParseChars(_, _, _)
ParseChars(t, j, acc) ==
    IF j > Len(t) THEN Fail
    ELSE IF t[j] = QUOTE THEN Parsed(acc, j + 1)
    ELSE IF t[j] = BSLASH
         THEN IF j + 1 > Len(t) THEN Fail
              ELSE IF t[j + 1] \in {QUOTE, BSLASH, "/"}
                   THEN ParseChars(t, j + 2, Append(acc, t[j + 1]))
              ELSE IF At(t, j + 1, <<"u", "f", "f", "f", "d">>)
                   THEN ParseChars(t, j + 6, Append(acc, REPL))
              ELSE Fail
    ELSE IF t[j] = BAD THEN ParseChars(t, j + 1, Append(acc, REPL))
    ELSE ParseChars(t, j + 1, Append(acc, t[j]))

RECURSIVE ParseValue(_, _)
RECURSIVE ParseMembers(_, _, _)
RECURSIVE ParseElements(_, _, _)
ParseValue(t, i0) ==
    LET i == SkipSpace(t, i0)
    IN  IF i > Len(t) THEN Fail
        ELSE IF t[i] = QUOTE
             THEN LET r == ParseChars(t, i + 1, <<>>)
                  IN  IF r.ok THEN Parsed(JString(r.v), r.next) ELSE Fail
        ELSE IF t[i] = "{"
             THEN LET j == SkipSpace(t, i + 1)
                  IN  IF j <= Len(t) /\ t[j] = "}"
                      THEN Parsed(JObject(EmptyKV), j + 1)
                      ELSE ParseMembers(t, j, EmptyKV)
        ELSE IF t[i] = "["
             THEN LET j == SkipSpace(t, i + 1)
                  IN  IF j <= Len(t) /\ t[j] = "]"
                      THEN Parsed(JArray(<<>>), j + 1)
                      ELSE ParseElements(t, j, <<>>)
        ELSE IF At(t, i, <<"n", "u", "l", "l">>) THEN Parsed(JNull, i + 4)
        ELSE IF At(t, i, <<"t", "r", "u", "e">>) THEN Parsed(JBool(TRUE), i + 4)
        ELSE IF At(t, i, <<"f", "a", "l", "s", "e">>) THEN Parsed(JBool(FALSE), i + 5)
        ELSE IF IsDigit(t[i]) THEN ParseNumber(t, i)
        ELSE Fail

\* name : value, then a comma and the next member, or the closing brace
ParseMembers(t, i0, acc) ==
    LET i == SkipSpace(t, i0)
    IN  IF i > Len(t) \/ t[i] # QUOTE THEN Fail
        ELSE LET k == ParseChars(t, i + 1, <<>>)
             IN  IF ~k.ok THEN Fail
                 ELSE LET j == SkipSpace(t, k.next)
                      IN  IF j > Len(t) \/ t[j] # ":" THEN Fail
                          ELSE LET v == ParseValue(t, j + 1)
                               IN  IF ~v.ok THEN Fail
                                   ELSE LET n == SkipSpace(t, v.next)
                                            more == [x \in (DOMAIN acc) \cup {k.v} |->
                                                        IF x = k.v THEN v.v ELSE acc[x]]
                                        IN  IF n > Len(t) THEN Fail
                                            ELSE IF t[n] = "," THEN ParseMembers(t, n + 1, more)
                                            ELSE IF t[n] = "}" THEN Parsed(JObject(more), n + 1)
                                            ELSE Fail

\* value, then a comma and the next element, or the closing bracket
ParseElements(t, i0, acc) ==
    LET v == ParseValue(t, i0)
    IN  IF ~v.ok THEN Fail
        ELSE LET n == SkipSpace(t, v.next)
                 more == Append(acc, v.v)
             IN  IF n > Len(t) THEN Fail
                 ELSE IF t[n] = "," THEN ParseElements(t, n + 1, more)
                 ELSE IF t[n] = "]" THEN Parsed(JArray(more), n + 1)
                 ELSE Fail

\* json.Unmarshal into an any
Unmarshal(t) ==
    LET r == ParseValue(t, 1)
    IN  IF r.ok /\ SkipSpace(t, r.next) = Len(t) + 1
        THEN [v |-> r.v, err |-> NoErr]
        ELSE [v |-> JNull, err |-> "json: syntax error"]

(***************************************************************************)
(* functions.go                                                            *)
(***************************************************************************)
HasPrefix(s, p) == At(s, 1, p)

HasSuffix(s, p) == Len(p) <= Len(s) /\ At(s, Len(s) - Len(p) + 1, p)

Contains(s, p) == \E i \in 1..(Len(s) + 1) : At(s, i, p)

\* strings.TrimSpace
RECURSIVE TrimSpace(_)
TrimSpace(s) ==
    IF s = <<>> THEN s
    ELSE IF IsSpace(Head(s)) THEN TrimSpace(Tail(s))
    ELSE IF IsSpace(s[Len(s)]) THEN TrimSpace(SubSeq(s, 1, Len(s) - 1))
    ELSE s

\* the validation applied to the trimmed text
isDataObjectJSON_Trimmed(jsonString) ==
    LET t == TrimSpace(jsonString)
    IN  IF t = <<>> \/ t = <<"{", "}">> \/ t = <<"n", "u", "l", "l">>
        THEN FALSE
        ELSE IF ~HasPrefix(t, <<"{">>) \/ ~HasSuffix(t, <<"}">>)
             THEN FALSE
             ELSE Contains(t, <<QUOTE>> \o propertyId \o <<QUOTE>>)

\* isValidDataObjectJSON that does not ask for the braces
isDataObjectJSON_AnyValue(jsonString) ==
    IF jsonString = <<>> \/ jsonString = <<"{", "}">>
       \/ jsonString = <<"n", "u", "l", "l">>
    THEN FALSE
    ELSE Contains(jsonString, <<QUOTE>> \o propertyId \o <<QUOTE>>)

isDataObjectJSON(jsonString) ==
    IF jsonString = <<>> \/ jsonString = <<"{", "}">>
       \/ jsonString = <<"n", "u", "l", "l">>
    THEN FALSE
    ELSE IF ~HasPrefix(jsonString, <<"{">>) \/ ~HasSuffix(jsonString, <<"}">>)
         THEN FALSE
         ELSE Contains(jsonString, <<QUOTE>> \o propertyId \o <<QUOTE>>)

\* strconv.FormatFloat(v, 'f', Precision, 64)
Precision == 4

RECURSIVE Itoa(_)
Itoa(n) == IF n < 10 THEN <<Digits[n + 1]>> ELSE Itoa(n \div 10) \o <<Digits[(n % 10) + 1]>>

\* strconv.FormatInt and strconv.FormatUint in base 10
FormatInt(n) == IF n < 0 THEN <<"-">> \o Itoa(0 - n) ELSE Itoa(n)

\* strconv.FormatFloat(v, 'f', Precision, 64) of a whole-valued float
FormatFloat(n) == FormatInt(n) \o <<".">> \o [i \in 1..Precision |-> "0"]

\* the dynamic types toString has a case for, and float32, which it has not;
\* a float64 carries the tag of a decoded JSON number
SignedTypes == {"int", "int8", "int16", "int32", "int64"}

UnsignedTypes == {"uint", "uint8", "uint16", "uint32", "uint64"}

FloatTypes == {"float32", "number"}

\* fmt.Sprint of a decoded value, as the default case of toString prints
\* it: map[k:v k:v] with the keys sorted, [e e] for a slice, and inside
\* either a float64 in its shortest form, a nil as <nil>
RECURSIVE Sprint(_)
RECURSIVE SprintMembers(_, _)
RECURSIVE SprintElements(_)
Sprint(v) ==
    IF v.t = "string" THEN v.v
    ELSE IF v.t = "null" THEN <<"<", "n", "i", "l", ">">>
    ELSE IF v.t = "bool"
         THEN IF v.v THEN <<"t", "r", "u", "e">> ELSE <<"f", "a", "l", "s", "e">>
    ELSE IF v.t \in FloatTypes THEN FormatInt(v.v)
    ELSE IF v.t = "array" THEN <<"[">> \o SprintElements(v.v) \o <<"]">>
    ELSE <<"m", "a", "p", "[">> \o SprintMembers(v.v, SortedKeys(DOMAIN v.v)) \o <<"]">>

SprintMembers(f, ks) ==
    IF ks = <<>> THEN <<>>
    ELSE Head(ks) \o <<":">> \o Sprint(f[Head(ks)])
         \o (IF Len(ks) > 1 THEN <<" ">> ELSE <<>>)
         \o SprintMembers(f, Tail(ks))

SprintElements(s) ==
    IF s = <<>> THEN <<>>
    ELSE Sprint(Head(s))
         \o (IF Len(s) > 1 THEN <<" ">> ELSE <<>>)
         \o SprintElements(Tail(s))

\* toString that prints a number the way fmt.Sprint does
toString_SprintsNumbers(v) ==
    IF v.t = "null" THEN <<>> ELSE Sprint(v)

toString(v) ==
    IF v.t = "string" THEN v.v
    ELSE IF v.t = "null" THEN <<>>
    ELSE IF v.t = "[]byte" THEN v.v
    ELSE IF v.t \in SignedTypes \cup UnsignedTypes THEN FormatInt(v.v)
    ELSE IF v.t = "number" THEN FormatFloat(v.v)
    ELSE Sprint(v)

\* the conversion that returns nil when it has nothing to convert
mapStringAnyToMapStringString_NilWhenEmpty(f) ==
    IF DOMAIN f = {} THEN NilMap ELSE MkMap([k \in DOMAIN f |-> toString(f[k])])

mapStringAnyToMapStringString(f) == MkMap([k \in DOMAIN f |-> toString(f[k])])

(***************************************************************************)
(* encoding/gob of a map[string]string: the type, the number of entries,   *)
(* then each key and value as its length and its bytes.  A length is       *)
(* written in unary: n marks and a stop.                                   *)
(***************************************************************************)
GobType == "map[string]string"

RECURSIVE Uvarint(_)
Uvarint(n) == IF n = 0 THEN <<"stop">> ELSE <<"mark">> \o Uvarint(n - 1)

GobString(s) == Uvarint(Len(s)) \o s

RECURSIVE GobEntries(_, _)
GobEntries(kv, ks) ==
    IF ks = <<>> THEN <<>>
    ELSE GobString(Head(ks)) \o GobString(kv[Head(ks)]) \o GobEntries(kv, Tail(ks))

\* every order in which the range over a map can visit the keys
RECURSIVE Orders(_)
Orders(S) ==
    IF S = {} THEN {<<>>}
    ELSE UNION {{<<k>> \o r : r \in Orders(S \ {k})} : k \in S}

GobEncode(m, ks) == <<GobType>> \o Uvarint(Len(ks)) \o GobEntries(m.kv, ks)

RECURSIVE ReadUvarint(_, _, _)
ReadUvarint(b, i, n) ==
    IF i > Len(b) THEN Fail
    ELSE IF b[i] = "stop" THEN Parsed(n, i + 1)
    ELSE IF b[i] = "mark" THEN ReadUvarint(b, i + 1, n + 1)
    ELSE Fail

ReadGobString(b, i) ==
    LET n == ReadUvarint(b, i, 0)
    IN  IF ~n.ok THEN Fail
        ELSE IF n.next + n.v - 1 > Len(b) THEN Fail
        ELSE Parsed(SubSeq(b, n.next, n.next + n.v - 1), n.next + n.v)

RECURSIVE ReadGobEntries(_, _, _, _)
ReadGobEntries(b, i, n, acc) ==
    IF n = 0 THEN Parsed(acc, i)
    ELSE LET k == ReadGobString(b, i)
         IN  IF ~k.ok THEN Fail
             ELSE LET v == ReadGobString(b, k.next)
                  IN  IF ~v.ok THEN Fail
                      ELSE ReadGobEntries(b, v.next, n - 1,
                               [x \in (DOMAIN acc) \cup {k.v} |->
                                   IF x = k.v THEN v.v ELSE acc[x]])

\* gob's Decode into a map[string]string
GobDecode(b) ==
    IF ~At(b, 1, <<GobType>>)
    THEN [m |-> NilMap, err |-> "gob: decoding failed"]
    ELSE LET n == ReadUvarint(b, 2, 0)
             r == IF n.ok THEN ReadGobEntries(b, n.next, n.v, EmptyKV) ELSE Fail
         IN  IF r.ok THEN [m |-> MkMap(r.v), err |-> NoErr]
             ELSE [m |-> NilMap, err |-> "gob: decoding failed"]

(***************************************************************************)
(* DataObject.ToJSON, DataObject.ToGob                                     *)
(***************************************************************************)
ToJSON(o) == [val |-> Marshal(o.data), err |-> NoErr]

ToGob(o, ks) == [val |-> GobEncode(o.data, ks), err |-> NoErr]

(***************************************************************************)
(* constructors.go                                                         *)
(***************************************************************************)
\* New that hydrates the id instead of setting it
New_Hydrated(id) == Hydrate(ZeroObject, MkMap([k \in {propertyId} |-> id]))

New(id) == SetID(ZeroObject, id).o

\* NewFromData that sets the entries instead of hydrating them
NewFromData_ViaSetData(m) == SetData(ZeroObject, m)

NewFromData(m) == Hydrate(ZeroObject, m)

\* a failed construction returns a nil object
NoObject(err) == [o |-> ZeroObject, isNil |-> TRUE, err |-> err]

Built(o) == [o |-> o, isNil |-> FALSE, err |-> NoErr]

\* NewFromJSON that sets the decoded entries instead of hydrating them
NewFromJSON_ViaSetData(jsonString) ==
    IF ~isDataObjectJSON(jsonString)
    THEN NoObject("invalid json: must be a valid dataobject json object")
    ELSE LET u == Unmarshal(jsonString)
         IN  IF u.err # NoErr THEN NoObject(u.err)
             ELSE IF u.v.t # "object"
                  THEN NoObject("panic: interface conversion")
             ELSE LET d == mapStringAnyToMapStringString(u.v.v)
                  IN  IF d.nil THEN NoObject("invalid data from json")
                      ELSE IF MapGet(d, propertyId) = <<>>
                           THEN NoObject("invalid json: missing id")
                      ELSE Built(SetData(ZeroObject, d))

\* NewFromJSON that reports a decoding failure as a validation failure
NewFromJSON_OneError(jsonString) ==
    IF ~isDataObjectJSON(jsonString)
    THEN NoObject("invalid json: must be a valid dataobject json object")
    ELSE LET u == Unmarshal(jsonString)
         IN  IF u.err # NoErr
             THEN NoObject("invalid json: must be a valid dataobject json object")
             ELSE IF u.v.t # "object"
                  THEN NoObject("panic: interface conversion")
             ELSE LET d == mapStringAnyToMapStringString(u.v.v)
                  IN  IF d.nil THEN NoObject("invalid data from json")
                      ELSE IF MapGet(d, propertyId) = <<>>
                           THEN NoObject("invalid json: missing id")
                      ELSE Built(NewFromData(d))

\* NewFromJSON that takes whatever id the text has
NewFromJSON_NoIdCheck(jsonString) ==
    IF ~isDataObjectJSON(jsonString)
    THEN NoObject("invalid json: must be a valid dataobject json object")
    ELSE LET u == Unmarshal(jsonString)
         IN  IF u.err # NoErr THEN NoObject(u.err)
             ELSE IF u.v.t # "object"
                  THEN NoObject("panic: interface conversion")
             ELSE LET d == mapStringAnyToMapStringString(u.v.v)
                  IN  IF d.nil THEN NoObject("invalid data from json")
                      ELSE Built(NewFromData(d))

\* NewFromJSON that trims the text before it validates it
NewFromJSON_Trims(jsonString) ==
    IF ~isDataObjectJSON(TrimSpace(jsonString))
    THEN NoObject("invalid json: must be a valid dataobject json object")
    ELSE LET u == Unmarshal(jsonString)
         IN  IF u.err # NoErr THEN NoObject(u.err)
             ELSE IF u.v.t # "object"
                  THEN NoObject("panic: interface conversion")
             ELSE LET d == mapStringAnyToMapStringString(u.v.v)
                  IN  IF d.nil THEN NoObject("invalid data from json")
                      ELSE IF MapGet(d, propertyId) = <<>>
                           THEN NoObject("invalid json: missing id")
                      ELSE Built(NewFromData(d))

NewFromJSON(jsonString) ==
    IF ~isDataObjectJSON(jsonString)
    THEN NoObject("invalid json: must be a valid dataobject json object")
    ELSE LET u == Unmarshal(jsonString)
         IN  IF u.err # NoErr THEN NoObject(u.err)
             ELSE IF u.v.t # "object"
                  THEN NoObject("panic: interface conversion")
             ELSE LET d == mapStringAnyToMapStringString(u.v.v)
                  IN  IF d.nil THEN NoObject("invalid data from json")
                      ELSE IF MapGet(d, propertyId) = <<>>
                           THEN NoObject("invalid json: missing id")
                      ELSE Built(NewFromData(d))

\* NewFromGob that only asks for the id to be there
NewFromGob_KeyCheckOnly(gobData) ==
    LET g == GobDecode(gobData)
    IN  IF g.err # NoErr THEN NoObject(g.err)
        ELSE IF ~MapHas(g.m, propertyId)
             THEN NoObject("invalid gob data: missing id")
        ELSE Built(NewFromData(g.m))

\* NewFromGob with the id check the wrong way round
NewFromGob_InvertedCheck(gobData) ==
    LET g == GobDecode(gobData)
    IN  IF g.err # NoErr THEN NoObject(g.err)
        ELSE IF MapGet(g.m, propertyId) # <<>>
             THEN NoObject("invalid gob data: missing id")
        ELSE Built(NewFromData(g.m))

NewFromGob(gobData) ==
    LET g == GobDecode(gobData)
    IN  IF g.err # NoErr THEN NoObject(g.err)
        ELSE IF MapGet(g.m, propertyId) = <<>>
             THEN NoObject("invalid gob data: missing id")
        ELSE Built(NewFromData(g.m))

(***************************************************************************)
(* The calls, as steps of one caller holding one container                 *)
(***************************************************************************)
Obj == [data |-> data, dataChanged |-> dataChanged, transformers |-> transformers]

Store(o) ==
    /\ UNCHANGED <<mem, run>>
    /\ data' = o.data
    /\ dataChanged' = o.dataChanged
    /\ transformers' = o.transformers

Call(op, args, ret, err) == [op |-> op, args |-> args, ret |-> ret, err |-> err]

\* a nil map refers to no object; the zero-value container has nil fields
NilAddr == 0

ZeroMem ==
    [heap |-> [a \in {} |-> EmptyKV], data |-> NilAddr, dataChanged |-> NilAddr,
     m |-> NilAddr, got |-> NilAddr, changed |-> NilAddr]

\* the goroutines that share one container, and the calls they make
Threads == {1, 2}

Other(t) == 3 - t

Idle == [name |-> "idle", key |-> <<>>]

\* no goroutine is in a call; locked tells whether the caller's goroutines
\* hold a mutex around each call; set is the keys Set has stored since the
\* last MarkAsNotDirty; fatal is the runtime's "concurrent map" abort
NoRun(locked) ==
    [locked |-> locked,
     pc     |-> [t \in Threads |-> "idle"],
     op     |-> [t \in Threads |-> Idle],
     stale  |-> [t \in Threads |-> FALSE],
     set    |-> {},
     fatal  |-> FALSE]

\* o := &DataObject{}
ZeroValue ==
    /\ data = ZeroObject.data
    /\ dataChanged = ZeroObject.dataChanged
    /\ transformers = ZeroObject.transformers
    /\ last = Call("ZeroValue", <<>>, <<>>, NoErr)
    /\ mem = ZeroMem
    /\ run = NoRun(TRUE)

\* the caller builds its container once, before it uses it
Fresh == last.op = "ZeroValue"

CallNew ==
    \E id \in GeneratedIDs :
        /\ Fresh
        /\ Store(New(id))
        /\ last' = Call("New", <<>>, <<>>, NoErr)

CallNewFromData ==
    \E m \in StringMaps :
        /\ Fresh
        /\ Store(NewFromData(m))
        /\ last' = Call("NewFromData", <<m>>, <<>>, NoErr)

CallSetTransformer ==
    \E k \in Keys, t \in TransformerKinds :
        LET r == SetTransformer(Obj, k, t)
        IN  /\ Store(r.o)
            /\ last' = Call("SetTransformer", <<k, t>>, <<>>, r.err)

CallSet ==
    \E k \in Keys, v \in Values :
        LET r == Set(Obj, k, v)
        IN  /\ Store(r.o)
            /\ last' = Call("Set", <<k, v>>, <<>>, r.err)

CallSetID ==
    \E v \in Values :
        LET r == SetID(Obj, v)
        IN  /\ Store(r.o)
            /\ last' = Call("SetID", <<v>>, <<>>, r.err)

CallGet ==
    \E k \in Keys :
        LET r == Get(Obj, k)
        IN  /\ Store(r.o)
            /\ last' = Call("Get", <<k>>, r.val, r.err)

CallID ==
    LET r == ID(Obj)
    IN  /\ Store(r.o)
        /\ last' = Call("ID", <<>>, r.val, r.err)

CallData ==
    LET r == Data(Obj)
    IN  /\ Store(r.o)
        /\ last' = Call("Data", <<>>, r.val, NoErr)

CallDataChanged ==
    LET r == DataChanged(Obj)
    IN  /\ Store(r.o)
        /\ last' = Call("DataChanged", <<>>, r.val, NoErr)

CallIsDirty ==
    LET r == IsDirty(Obj)
    IN  /\ Store(r.o)
        /\ last' = Call("IsDirty", <<>>, r.val, NoErr)

CallMarkAsNotDirty ==
    /\ Store(MarkAsNotDirty(Obj))
    /\ last' = Call("MarkAsNotDirty", <<>>, <<>>, NoErr)

CallSetData ==
    \E m \in StringMaps :
        /\ Store(SetData(Obj, m))
        /\ last' = Call("SetData", <<m>>, <<>>, NoErr)

CallHydrate ==
    \E m \in StringMaps :
        /\ Store(Hydrate(Obj, m))
        /\ last' = Call("Hydrate", <<m>>, <<>>, NoErr)

CallInit ==
    /\ Store(Init(Obj))
    /\ last' = Call("Init", <<>>, <<>>, NoErr)

CallToJSON ==
    LET r == ToJSON(Obj)
    IN  /\ UNCHANGED <<data, dataChanged, transformers, mem, run>>
        /\ last' = Call("ToJSON", <<>>, r.val, r.err)

CallToGob ==
    \E ks \in Orders(DOMAIN data.kv) :
        LET r == ToGob(Obj, ks)
        IN  /\ UNCHANGED <<data, dataChanged, transformers, mem, run>>
            /\ last' = Call("ToGob", <<>>, r.val, r.err)

\* texts a caller holds: hand-written ones, or the text ToJSON just returned
JSONTexts ==
    {<<>>,
     <<"{", "}">>,
     <<"{", QUOTE, "i", "d", QUOTE, ":", QUOTE, QUOTE, "}">>,
     <<"{", QUOTE, "i", "d", QUOTE, ":", QUOTE, "x", QUOTE, ",", "}">>,
     <<" ", "{", QUOTE, "i", "d", QUOTE, ":", QUOTE, "x", QUOTE, "}">>,
     <<"{", QUOTE, "a", QUOTE, ":", QUOTE, "i", "d", QUOTE, "}">>,
     <<"{", QUOTE, "i", "d", QUOTE, ":", "t", "r", "u", "e", ",", " ",
       QUOTE, "a", QUOTE, ":", "n", "u", "l", "l", "}">>}

GobTexts ==
    {<<>>,
     <<"i", "n", "v", "a", "l", "i", "d">>,
     GobEncode(MkMap([k \in {<<"a">>} |-> <<"x">>]), <<(<<"a">>)>>),
     GobEncode(MkMap([k \in {propertyId} |-> <<"x">>]), <<propertyId>>)}

\* do, err := NewFromJSON(s): the caller holds do when it is not nil
NewFromJSONCall(s) ==
    LET r == NewFromJSON(s)
    IN  /\ IF r.isNil THEN UNCHANGED <<data, dataChanged, transformers, mem, run>>
                      ELSE Store(r.o)
        /\ last' = Call("NewFromJSON", <<s>>, ~r.isNil, r.err)

\* do, err := NewFromGob(b)
NewFromGobCall(b) ==
    LET r == NewFromGob(b)
    IN  /\ IF r.isNil THEN UNCHANGED <<data, dataChanged, transformers, mem, run>>
                      ELSE Store(r.o)
        /\ last' = Call("NewFromGob", <<b>>, ~r.isNil, r.err)

CallNewFromJSON ==
    \E s \in IF Fresh THEN JSONTexts
             ELSE IF last.op = "ToJSON" /\ last.err = NoErr THEN {last.ret} ELSE {} :
        NewFromJSONCall(s)

CallNewFromGob ==
    \E b \in IF Fresh THEN GobTexts
             ELSE IF last.op = "ToGob" /\ last.err = NoErr THEN {last.ret} ELSE {} :
        NewFromGobCall(b)

Next ==
    \/ CallNew
    \/ CallNewFromData
    \/ CallNewFromJSON
    \/ CallNewFromGob
    \/ CallToJSON
    \/ CallToGob
    \/ CallSetTransformer
    \/ CallSet
    \/ CallSetID
    \/ CallGet
    \/ CallID
    \/ CallData
    \/ CallDataChanged
    \/ CallIsDirty
    \/ CallMarkAsNotDirty
    \/ CallSetData
    \/ CallHydrate
    \/ CallInit

Spec == ZeroValue /\ [][Next]_vars

(***************************************************************************)
(* The writing calls on their own: a caller that builds a container,       *)
(* registers transformers and writes, without reading in between.          *)
(***************************************************************************)
(***************************************************************************)
(* The container with its maps as objects in memory.  mem.heap gives the   *)
(* entries of every map that is still referred to, mem.data and            *)
(* mem.dataChanged are the maps the two fields refer to, mem.m is a map    *)
(* the caller made, mem.got and mem.changed the maps the caller last       *)
(* received from Data() and from DataChanged().  The transformers play no  *)
(* part here.                                                              *)
(***************************************************************************)
\* the entries of the map at a; a nil map has none
MapAt(h, a) == IF a = NilAddr THEN EmptyKV ELSE h[a]

\* the map a field refers to, as the methods see it
View(h, a) == IF a = NilAddr THEN NilMap ELSE MkMap(h[a])

\* make(map[string]string): an object no one refers to yet
Alloc(h) == CHOOSE a \in 1..(Cardinality(DOMAIN h) + 1) : a \notin DOMAIN h

Make(h, a, kv) == [x \in DOMAIN h \cup {a} |-> IF x = a THEN kv ELSE h[x]]

\* Init: a field whose map has no entries is given a new map
RefInit(r) ==
    LET d  == IF Cardinality(DOMAIN MapAt(r.heap, r.data)) < 1
              THEN Alloc(r.heap) ELSE r.data
        h1 == IF d = r.data THEN r.heap ELSE Make(r.heap, d, EmptyKV)
        c  == IF Cardinality(DOMAIN MapAt(h1, r.dataChanged)) < 1
              THEN Alloc(h1) ELSE r.dataChanged
        h2 == IF c = r.dataChanged THEN h1 ELSE Make(h1, c, EmptyKV)
    IN  [r EXCEPT !.heap = h2, !.data = d, !.dataChanged = c]

\* the maps nothing refers to any more are collected, and the others are
\* numbered in the order in which the fields and the caller's variables
\* refer to them (which number a map has means nothing)
Roots(r) == <<r.data, r.dataChanged, r.m, r.got, r.changed>>

Name(rs, a) ==
    IF a = NilAddr THEN NilAddr
    ELSE LET f == CHOOSE i \in 1..Len(rs) : rs[i] = a /\ \A j \in 1..(i - 1) : rs[j] # a
         IN  Cardinality({rs[j] : j \in 1..(f - 1)} \ {NilAddr}) + 1

Collect(r) ==
    LET rs   == Roots(r)
        live == {rs[i] : i \in 1..Len(rs)} \ {NilAddr}
    IN  [heap        |-> [n \in {Name(rs, a) : a \in live} |->
                             r.heap[CHOOSE a \in live : Name(rs, a) = n]],
         data        |-> Name(rs, r.data),
         dataChanged |-> Name(rs, r.dataChanged),
         m           |-> Name(rs, r.m),
         got         |-> Name(rs, r.got),
         changed     |-> Name(rs, r.changed)]

Commit(r, op, args, ret) ==
    /\ mem' = Collect(r)
    /\ data' = View(r.heap, r.data)
    /\ dataChanged' = View(r.heap, r.dataChanged)
    /\ UNCHANGED <<transformers, run>>
    /\ last' = Call(op, args, ret, NoErr)

\* the maps the caller makes for Hydrate: an empty one, a non-empty one
CallerMaps == {EmptyKV, [k \in {propertyId} |-> <<"x">>]}

\* the values Set is called with here: one the caller's map does not hold
AliasValues == {<<"z">>}

\* m := map[string]string{...}, once, before the container is used
AliasMake ==
    /\ Fresh
    /\ \E kv \in CallerMaps :
          LET a == Alloc(mem.heap)
          IN  Commit([mem EXCEPT !.heap = Make(@, a, kv), !.m = a], "make", <<kv>>, <<>>)

\* Hydrate that stores a copy of the mapping it is given
AliasHydrate_Copies ==
    \E w \in {"m", "changed"} :
        LET i == RefInit(mem)
            a == Alloc(i.heap)
        IN  Commit([i EXCEPT !.heap = Make(@, a, MapAt(mem.heap, mem[w])), !.data = a],
                   "Hydrate", <<w>>, <<>>)

\* o.Hydrate(m), or o.Hydrate(changed)
AliasHydrate ==
    \E w \in {"m", "changed"} :
        Commit([RefInit(mem) EXCEPT !.data = mem[w]], "Hydrate", <<w>>, <<>>)

AliasSet ==
    \E k \in Keys, v \in AliasValues :
        LET i  == RefInit(mem)
            h1 == [i.heap EXCEPT ![i.data] = MapPut(MkMap(@), k, v).kv]
            h2 == [h1 EXCEPT ![i.dataChanged] = MapPut(MkMap(@), k, v).kv]
        IN  Commit([i EXCEPT !.heap = h2], "Set", <<k, v>>, <<>>)

\* got := o.Data()
AliasData ==
    LET i == RefInit(mem)
    IN  Commit([i EXCEPT !.got = i.data], "Data", <<>>, <<>>)

\* changed := o.DataChanged()
AliasDataChanged ==
    LET i == RefInit(mem)
    IN  Commit([i EXCEPT !.changed = i.dataChanged], "DataChanged", <<>>, <<>>)

\* MarkAsNotDirty that empties the map the field refers to
AliasMarkAsNotDirty_Clears ==
    LET i == RefInit(mem)
    IN  Commit([i EXCEPT !.heap = [@ EXCEPT ![i.dataChanged] = EmptyKV]],
               "MarkAsNotDirty", <<>>, <<>>)

AliasMarkAsNotDirty ==
    LET a == Alloc(mem.heap)
    IN  Commit([mem EXCEPT !.heap = Make(@, a, EmptyKV), !.dataChanged = a],
               "MarkAsNotDirty", <<>>, <<>>)

NextAlias ==
    \/ AliasMake
    \/ AliasHydrate
    \/ AliasSet
    \/ AliasData
    \/ AliasDataChanged
    \/ AliasMarkAsNotDirty

SpecAlias == ZeroValue /\ [][NextAlias]_vars

(***************************************************************************)
(* Two goroutines calling one container.  A call is no longer one step:    *)
(* Init tests len(do.data) < 1 and assigns the new map in two steps, and   *)
(* so for the other fields; a map assignment do.data[key] = value has a    *)
(* beginning, where the runtime marks the map as being written, and an     *)
(* end, where the entry is in the map.  With run.locked the goroutines     *)
(* hold the caller's mutex around each call, so that a call starts only    *)
(* when no other is under way.  No transformer is registered in these      *)
(* runs, so Set stores the value as given.                                 *)
(***************************************************************************)
RaceValue == <<"z">>

ReadCalls == {"IsDirty", "Data", "DataChanged", "Get"}

RaceCalls ==
    {[name |-> n, key |-> k] : n \in {"Set", "Get"}, k \in Keys}
        \cup {[name |-> n, key |-> <<>>] :
                n \in {"MarkAsNotDirty", "IsDirty", "Data", "DataChanged"}}

MayStep(t) == ~run.fatal /\ (run.locked => run.pc[Other(t)] = "idle")

\* goroutine u is between the beginning and the end of an assignment to the
\* map the field still refers to
Writing(u, at) == run.pc[u] = at /\ ~run.stale[u]

\* the field gets a new map: an assignment the other goroutine has begun
\* ends in the old one
Replaced(t, at) == run.stale[Other(t)] \/ run.pc[Other(t)] = at

Return(t) == [run EXCEPT !.pc[t] = "idle", !.op[t] = Idle, !.stale[t] = FALSE]

RaceBegin(t) ==
    /\ MayStep(t)
    /\ run.pc[t] = "idle"
    /\ \E c \in RaceCalls :
          run' = [run EXCEPT !.op[t] = c,
                             !.pc[t] = IF c.name = "MarkAsNotDirty" THEN "mark"
                                                                    ELSE "initData"]
    /\ UNCHANGED <<data, dataChanged, transformers, last, mem>>

\* if len(do.data) < 1
RaceInitData(t) ==
    /\ MayStep(t)
    /\ run.pc[t] = "initData"
    /\ run' = [run EXCEPT !.pc[t] = IF MapLen(data) < 1 THEN "newData" ELSE "initChanged"]
    /\ UNCHANGED <<data, dataChanged, transformers, last, mem>>

\* do.data = map[string]string{}
RaceNewData(t) ==
    /\ MayStep(t)
    /\ run.pc[t] = "newData"
    /\ data' = EmptyMap
    /\ run' = [run EXCEPT !.pc[t] = "initChanged",
                          !.stale[Other(t)] = Replaced(t, "dataEnd")]
    /\ UNCHANGED <<dataChanged, transformers, last, mem>>

\* if len(do.dataChanged) < 1
RaceInitChanged(t) ==
    /\ MayStep(t)
    /\ run.pc[t] = "initChanged"
    /\ run' = [run EXCEPT !.pc[t] = IF MapLen(dataChanged) < 1 THEN "newChanged"
                                                               ELSE "initTransformers"]
    /\ UNCHANGED <<data, dataChanged, transformers, last, mem>>

\* do.dataChanged = map[string]string{}
RaceNewChanged(t) ==
    /\ MayStep(t)
    /\ run.pc[t] = "newChanged"
    /\ dataChanged' = EmptyMap
    /\ run' = [run EXCEPT !.pc[t] = "initTransformers",
                          !.stale[Other(t)] = Replaced(t, "changedEnd")]
    /\ UNCHANGED <<data, transformers, last, mem>>

\* the third test of Init and its assignment: the table is empty in these
\* runs, and no goroutine assigns to an entry of it
RaceInitTransformers(t) ==
    /\ MayStep(t)
    /\ run.pc[t] = "initTransformers"
    /\ transformers' = Init(Obj).transformers
    /\ run' = [run EXCEPT !.pc[t] = "body"]
    /\ UNCHANGED <<data, dataChanged, last, mem>>

\* do.data[key] = value begins; the runtime aborts when it finds the map
\* being written by another goroutine
RaceSetDataBegin(t) ==
    /\ MayStep(t)
    /\ run.pc[t] = "body"
    /\ run.op[t].name = "Set"
    /\ run' = IF Writing(Other(t), "dataEnd")
              THEN [run EXCEPT !.fatal = TRUE]
              ELSE [run EXCEPT !.pc[t] = "dataEnd", !.stale[t] = FALSE]
    /\ UNCHANGED <<data, dataChanged, transformers, last, mem>>

\* do.data[key] = value ends
RaceSetDataEnd(t) ==
    /\ MayStep(t)
    /\ run.pc[t] = "dataEnd"
    /\ data' = IF run.stale[t] THEN data ELSE MapPut(data, run.op[t].key, RaceValue)
    /\ run' = [run EXCEPT !.pc[t] = "changedBegin", !.stale[t] = FALSE]
    /\ UNCHANGED <<dataChanged, transformers, last, mem>>

\* do.dataChanged[key] = value begins
RaceSetChangedBegin(t) ==
    /\ MayStep(t)
    /\ run.pc[t] = "changedBegin"
    /\ run' = IF Writing(Other(t), "changedEnd")
              THEN [run EXCEPT !.fatal = TRUE]
              ELSE [run EXCEPT !.pc[t] = "changedEnd", !.stale[t] = FALSE]
    /\ UNCHANGED <<data, dataChanged, transformers, last, mem>>

\* Set that leaves the changed map as it is
RaceSetChangedEnd_Skips(t) ==
    /\ MayStep(t)
    /\ run.pc[t] = "changedEnd"
    /\ run' = [Return(t) EXCEPT !.set = @ \cup {run.op[t].key}]
    /\ last' = Call("Set", <<run.op[t].key, RaceValue>>, <<>>, NoErr)
    /\ UNCHANGED <<data, dataChanged, transformers, mem>>

\* do.dataChanged[key] = value ends, and Set returns nil
RaceSetChangedEnd(t) ==
    /\ MayStep(t)
    /\ run.pc[t] = "changedEnd"
    /\ dataChanged' = IF run.stale[t] THEN dataChanged
                      ELSE MapPut(dataChanged, run.op[t].key, RaceValue)
    /\ run' = [Return(t) EXCEPT !.set = @ \cup {run.op[t].key}]
    /\ last' = Call("Set", <<run.op[t].key, RaceValue>>, <<>>, NoErr)
    /\ UNCHANGED <<data, transformers, mem>>

\* MarkAsNotDirty: do.dataChanged = map[string]string{}
RaceMark(t) ==
    /\ MayStep(t)
    /\ run.pc[t] = "mark"
    /\ dataChanged' = EmptyMap
    /\ run' = [Return(t) EXCEPT !.set = {},
                                !.stale[Other(t)] = Replaced(t, "changedEnd")]
    /\ last' = Call("MarkAsNotDirty", <<>>, <<>>, NoErr)
    /\ UNCHANGED <<data, transformers, mem>>

\* what the reading calls do after Init: IsDirty takes the length of the
\* changed map, Data and DataChanged return the fields, Get reads an entry
\* of the values map (the runtime aborts when it finds the map being
\* written)
RaceRead(t) ==
    /\ MayStep(t)
    /\ run.pc[t] = "body"
    /\ run.op[t].name \in ReadCalls
    /\ IF run.op[t].name = "Get" /\ Writing(Other(t), "dataEnd")
       THEN /\ run' = [run EXCEPT !.fatal = TRUE]
            /\ UNCHANGED last
       ELSE /\ run' = Return(t)
            /\ last' = CASE run.op[t].name = "IsDirty" ->
                              Call("IsDirty", <<>>, MapLen(dataChanged) > 0, NoErr)
                         [] run.op[t].name = "Data" ->
                              Call("Data", <<>>, data, NoErr)
                         [] run.op[t].name = "DataChanged" ->
                              Call("DataChanged", <<>>, dataChanged, NoErr)
                         [] OTHER ->
                              Call("Get", <<run.op[t].key>>,
                                   MapGet(data, run.op[t].key), NoErr)
    /\ UNCHANGED <<data, dataChanged, transformers, mem>>

\* the goroutines start on a container nothing has run on yet, or on one
\* made by New and checkpointed: in both the changed map has no entry
RaceInit ==
    \E l \in BOOLEAN, made \in BOOLEAN :
        LET o == IF made THEN MarkAsNotDirty(New(<<"x">>)) ELSE ZeroObject
        IN  /\ data = o.data
            /\ dataChanged = o.dataChanged
            /\ transformers = o.transformers
            /\ last = IF made THEN Call("MarkAsNotDirty", <<>>, <<>>, NoErr)
                              ELSE Call("ZeroValue", <<>>, <<>>, NoErr)
            /\ mem = ZeroMem
            /\ run = NoRun(l)

NextRace ==
    \E t \in Threads :
        \/ RaceBegin(t)
        \/ RaceInitData(t)
        \/ RaceNewData(t)
        \/ RaceInitChanged(t)
        \/ RaceNewChanged(t)
        \/ RaceInitTransformers(t)
        \/ RaceSetDataBegin(t)
        \/ RaceSetDataEnd(t)
        \/ RaceSetChangedBegin(t)
        \/ RaceSetChangedEnd(t)
        \/ RaceMark(t)
        \/ RaceRead(t)

SpecRace == RaceInit /\ [][NextRace]_vars

\* every call but Hydrate, and Hydrate only on a container on which no Set
\* has been made: the zero value, one just built by NewFromData, or one
\* that was only hydrated so far
HydrateBeforeSet ==
    /\ last.op \in {"ZeroValue", "NewFromData", "Hydrate"}
    /\ CallHydrate

NextNoHydrate ==
    \/ CallNew
    \/ CallNewFromData
    \/ CallNewFromJSON
    \/ CallNewFromGob
    \/ CallToJSON
    \/ CallToGob
    \/ CallSetTransformer
    \/ CallSet
    \/ CallSetID
    \/ CallGet
    \/ CallID
    \/ CallData
    \/ CallDataChanged
    \/ CallIsDirty
    \/ CallMarkAsNotDirty
    \/ CallSetData
    \/ CallInit
    \/ HydrateBeforeSet

SpecNoHydrate == ZeroValue /\ [][NextNoHydrate]_vars

NextWrites ==
    \/ CallNew
    \/ CallNewFromData
    \/ CallSetTransformer
    \/ CallSet
    \/ CallSetData
    \/ CallHydrate
    \/ CallMarkAsNotDirty

SpecWrites == ZeroValue /\ [][NextWrites]_vars

(***************************************************************************)
(* The decoding constructors on their own, over many inputs.  A JSON text  *)
(* is an opening, up to MaxMembers members name:value joined by commas,    *)
(* and a closing; openings and closings include the malformed ones.        *)
(***************************************************************************)
MaxMembers == 2

JSONOpenings == {<<"{">>, <<" ", "{">>, <<"[">>}

JSONClosings == {<<"}">>, <<",", "}">>, <<"}", " ">>, <<"]">>, <<>>}

JSONNames == {<<QUOTE, "i", "d", QUOTE>>, <<QUOTE, "x", QUOTE>>}

JSONValues ==
    {<<QUOTE, QUOTE>>, <<QUOTE, "x", QUOTE>>, <<QUOTE, "i", "d", QUOTE>>,
     <<"0">>, <<"1", "2">>, <<"t", "r", "u", "e">>, <<"n", "u", "l", "l">>,
     <<"{", QUOTE, "x", QUOTE, ":", "0", "}">>, <<"[", "]">>,
     <<"[", "0", ",", "n", "u", "l", "l", "]">>}

JSONMembers == {n \o <<":">> \o v : n \in JSONNames, v \in JSONValues}

\* exactly n members, joined by commas
RECURSIVE JoinedMembers(_)
JoinedMembers(n) ==
    IF n = 0 THEN {<<>>}
    ELSE IF n = 1 THEN JSONMembers
    ELSE {j \o <<",">> \o m : j \in JoinedMembers(n - 1), m \in JSONMembers}

JSONInputs ==
    {<<>>, <<"n", "u", "l", "l">>, <<" ">>, <<" ", "n", "u", "l", "l", " ">>,
     <<"0">>, <<QUOTE, "i", "d", QUOTE>>, <<"[", QUOTE, "i", "d", QUOTE, "]">>} \cup
    {o \o b \o c : o \in JSONOpenings,
                   b \in UNION {JoinedMembers(n) : n \in 0..MaxMembers},
                   c \in JSONClosings}

\* the encodings of every map in every key order, each also cut short by
\* one byte, and two payloads that are no encoding of such a map
GobInputs ==
    LET whole == UNION {{GobEncode(m, ks) : ks \in Orders(DOMAIN m.kv)} : m \in StringMaps}
    IN  whole \cup {SubSeq(b, 1, Len(b) - 1) : b \in whole}
              \cup {<<>>, <<"map[string]int", "stop">>}

DecodeJSON == Fresh /\ \E s \in JSONInputs : NewFromJSONCall(s)

DecodeGob == Fresh /\ \E b \in GobInputs : NewFromGobCall(b)

NextDecode ==
    \/ DecodeJSON
    \/ DecodeGob

SpecDecode == ZeroValue /\ [][NextDecode]_vars

(***************************************************************************)
(* The value conversion on its own: toString applied to one Go value of    *)
(* each dynamic type it distinguishes. Floats are whole-valued; integers   *)
(* stay within the narrowest width of their signedness.                    *)
(***************************************************************************)
GoNumbers == {0, 1, 7, 12, 42, 127}

GoValues ==
    [t : UnsignedTypes, v : GoNumbers]
    \cup [t : SignedTypes \cup FloatTypes, v : GoNumbers \cup {0 - n : n \in GoNumbers}]
    \cup [t : {"string", "[]byte"}, v : Values]
    \cup [t : {"bool"}, v : BOOLEAN]
    \cup {JNull}

CallToString ==
    /\ Fresh
    /\ \E v \in GoValues :
          last' = Call("toString", <<v>>, toString(v), NoErr)
    /\ UNCHANGED <<data, dataChanged, transformers, mem, run>>

SpecConvert == ZeroValue /\ [][CallToString]_vars

(***************************************************************************)
(* Properties                                                              *)
(***************************************************************************)
Constructors == {"New", "NewFromData", "NewFromJSON", "NewFromGob"}

\* what Data() and DataChanged() return, as key-value functions
DataKV(o) == Data(o).val.kv

ChangedKV(o) == DataChanged(o).val.kv

HasID(o) == propertyId \in DOMAIN DataKV(o)

NoTransformers(o) == MapLen(o.transformers) = 0

ValidUTF8(x) == \A i \in 1..Len(x) : x[i] # BAD

\* C1: with no transformer registered for k, after Set(k, v) returns, Get(k),
\* Data()[k] and DataChanged()[k] all equal v; this holds for every Set, also
\* one that overwrites an earlier value of the same key.
C1_SetThenGet ==
    (last.op = "Set" /\ GetTransformer(Obj, last.args[1]) = NoTransformer) =>
        LET k == last.args[1]
            v == last.args[2]
        IN  /\ last.err = NoErr
            /\ Get(Obj, k).val = v
            /\ Get(Obj, k).err = NoErr
            /\ k \in DOMAIN DataKV(Obj)
            /\ DataKV(Obj)[k] = v
            /\ k \in DOMAIN ChangedKV(Obj)
            /\ ChangedKV(Obj)[k] = v

C1_Witness ==
    /\ last.op = "Set"
    /\ last.args = << <<"a", QUOTE>>, <<"x">> >>
    /\ GetTransformer(Obj, last.args[1]) = NoTransformer
    /\ DOMAIN data.kv = Keys
    /\ DOMAIN dataChanged.kv = Keys
    /\ data.kv[last.args[1]] = <<"x">>

ChangedSubsetOfValues ==
    LET c == ChangedKV(Obj)
        d == DataKV(Obj)
    IN  \A k \in DOMAIN c : k \in DOMAIN d /\ d[k] = c[k]

C3_MarkAsNotDirtyCheckpoint ==
    [][last'.op = "MarkAsNotDirty" =>
        /\ last'.err = NoErr
        /\ DOMAIN ChangedKV(Obj') = {}
        /\ ~IsDirty(Obj').val
        /\ DataKV(Obj') = DataKV(Obj)]_vars

C3_Witness ==
    /\ last.op = "MarkAsNotDirty"
    /\ MapLen(data) = 2
    /\ MapLen(dataChanged) = 0

\* C4: right after New() the container is dirty, ID() is non-empty, and
\* Data() and DataChanged() each hold the key "id" with that value and no
\* other key.
C4_NewIsDirty ==
    last.op = "New" =>
        /\ IsDirty(Obj).val
        /\ ID(Obj).err = NoErr
        /\ ID(Obj).val # <<>>
        /\ DOMAIN DataKV(Obj) = {propertyId}
        /\ DOMAIN ChangedKV(Obj) = {propertyId}
        /\ DataKV(Obj)[propertyId] = ID(Obj).val
        /\ ChangedKV(Obj)[propertyId] = ID(Obj).val

C4_Witness ==
    /\ last.op = "New"
    /\ MapGet(data, propertyId) \in GeneratedIDs
    /\ MapGet(dataChanged, propertyId) \in GeneratedIDs

\* C5: NewFromData(m) is clean, Data() has exactly the keys of m, and
\* Get(k) = m[k] for every key k of m.
C5_NewFromDataClean ==
    last.op = "NewFromData" =>
        LET m == last.args[1]
        IN  /\ ~IsDirty(Obj).val
            /\ DOMAIN ChangedKV(Obj) = {}
            /\ DOMAIN DataKV(Obj) = DOMAIN m.kv
            /\ \A k \in DOMAIN m.kv :
                   Get(Obj, k).err = NoErr /\ Get(Obj, k).val = m.kv[k]

C5_Witness ==
    /\ last.op = "NewFromData"
    /\ DOMAIN last.args[1].kv = Keys
    /\ last.args[1].kv[propertyId] # <<>>
    /\ data = last.args[1]

C7_IsDirtyIffChanged ==
    /\ IsDirty(Obj).val <=> (DOMAIN ChangedKV(Obj) # {})
    /\ last.op = "IsDirty" => (last.ret <=> (DOMAIN ChangedKV(Obj) # {}))

C7_Witness ==
    /\ last.op = "IsDirty"
    /\ last.ret
    /\ MapLen(dataChanged) = 1
    /\ MapLen(data) = 0

JSONRoundTrip ==
    /\ last.op = "ToJSON"
    /\ last.err = NoErr
    /\ last'.op = "NewFromJSON"
    /\ last'.args = <<last.ret>>

SameAttributes(o, n) ==
    /\ ID(n).err = NoErr
    /\ ID(n).val = ID(o).val
    /\ \A k \in Keys \cup DOMAIN o.data.kv :
           Get(n, k).err = NoErr /\ Get(n, k).val = Get(o, k).val

\* C9 as stated: for every container with a non-empty id and no
\* transformers, NewFromJSON(ToJSON()) succeeds with the same ID() and the
\* same Get(k) for every key, and the result is not dirty.
C9_JSONRoundTripAnyBytes ==
    [][(JSONRoundTrip /\ NoTransformers(Obj) /\ ID(Obj).val # <<>>) =>
        /\ last'.err = NoErr
        /\ last'.ret
        /\ SameAttributes(Obj, Obj')
        /\ ~IsDirty(Obj').val]_vars

\* C9 as amended: the same, for containers whose keys and values are valid
\* UTF-8; an invalid byte comes back as U+FFFD.
C9_JSONRoundTripValidUTF8 ==
    [][(JSONRoundTrip /\ NoTransformers(Obj) /\ ID(Obj).val # <<>>
          /\ \A k \in DOMAIN data.kv : ValidUTF8(k) /\ ValidUTF8(data.kv[k])) =>
        /\ last'.err = NoErr
        /\ last'.ret
        /\ SameAttributes(Obj, Obj')
        /\ ~IsDirty(Obj').val]_vars

C9_Witness ==
    /\ last.op = "NewFromJSON"
    /\ last.err = NoErr
    /\ last.args = <<Marshal(data)>>
    /\ DOMAIN data.kv = Keys
    /\ data.kv[<<"a", QUOTE>>] = <<"x">>
    /\ MapLen(dataChanged) = 0

\* the container is rebuilt from the bytes its own ToGob just returned
GobRoundTrip ==
    /\ last.op = "ToGob"
    /\ last.err = NoErr
    /\ last'.op = "NewFromGob"
    /\ last'.args = <<last.ret>>

\* C10 as stated: for every container with a non-empty id,
\* NewFromGob(ToGob()) succeeds and returns a clean container with the same
\* ID() and the same value for every key.
C10_GobRoundTripAnyContainer ==
    [][(GobRoundTrip /\ ID(Obj).err = NoErr /\ ID(Obj).val # <<>>) =>
        /\ last'.err = NoErr
        /\ last'.ret
        /\ ~IsDirty(Obj').val
        /\ ID(Obj').val = ID(Obj).val
        /\ DataKV(Obj') = DataKV(Obj)]_vars

\* C10 as amended: the same, for containers with no transformer registered;
\* ID() of the original goes through the transformer of "id", ID() of the
\* rebuilt container does not.
C10_GobRoundTripNoTransformers ==
    [][(GobRoundTrip /\ NoTransformers(Obj)
          /\ ID(Obj).err = NoErr /\ ID(Obj).val # <<>>) =>
        /\ last'.err = NoErr
        /\ last'.ret
        /\ ~IsDirty(Obj').val
        /\ ID(Obj').val = ID(Obj).val
        /\ DataKV(Obj') = DataKV(Obj)]_vars

C10_Witness ==
    /\ last.op = "NewFromGob"
    /\ last.err = NoErr
    /\ last.args[1] \in {GobEncode(data, ks) : ks \in Orders(DOMAIN data.kv)}
    /\ DOMAIN data.kv = Keys
    /\ data.kv[<<"a", QUOTE>>] = <<BAD>>
    /\ MapLen(dataChanged) = 0

(***************************************************************************)
(* Properties of the decoding constructors                                 *)
(***************************************************************************)
ValidationError == "invalid json: must be a valid dataobject json object"

MissingIdError == "invalid json: missing id"

IdToken == <<QUOTE, "i", "d", QUOTE>>

\* what the validation is said to reject: the three literal texts, a text
\* not enclosed in braces, a text without the quoted token "id"
SaidRejected(s) ==
    \/ s \in {<<>>, <<"{", "}">>, <<"n", "u", "l", "l">>}
    \/ ~(Len(s) > 0 /\ s[1] = "{" /\ s[Len(s)] = "}")
    \/ ~(\E i \in 1..Len(s) : i + 3 <= Len(s) /\ SubSeq(s, i, i + 3) = IdToken)

\* C11: NewFromJSON answers every text that is "", "{}" or "null", or is not
\* enclosed in '{' and '}', or lacks the quoted token "id", with the
\* validation error and a nil object, also when the text is malformed JSON
\* (the validation comes before the decoding); the validation accepts every
\* other text, {"id":""} among them.
C11_ValidationRejects ==
    /\ isDataObjectJSON(<<"{">> \o IdToken \o <<":", QUOTE, QUOTE, "}">>)
    /\ last.op = "NewFromJSON" =>
          LET s == last.args[1]
          IN  /\ SaidRejected(s) =>
                    /\ last.err = ValidationError
                    /\ last.ret = FALSE
                    /\ Obj = ZeroObject
              /\ ~SaidRejected(s) =>
                    /\ isDataObjectJSON(s)
                    /\ last.err # ValidationError

\* a well-formed object with an id, rejected for the blank in front of it
C11_Witness ==
    /\ last.op = "NewFromJSON"
    /\ last.args[1] = <<" ", "{">> \o IdToken \o <<":", QUOTE, "x", QUOTE, "}">>
    /\ Unmarshal(last.args[1]).err = NoErr
    /\ last.err = ValidationError
    /\ last.ret = FALSE

\* the text is well-formed JSON, an object, with a member named id
WellFormedObjectWithId(s) ==
    LET u == Unmarshal(s)
    IN  u.err = NoErr /\ u.v.t = "object" /\ propertyId \in DOMAIN u.v.v

C13_DecodeErrorIsDistinct ==
    /\ (/\ last.op = "NewFromJSON"
         /\ isDataObjectJSON(last.args[1])
         /\ Unmarshal(last.args[1]).err # NoErr) =>
            /\ last.ret = FALSE
            /\ last.err = Unmarshal(last.args[1]).err
            /\ last.err \notin {NoErr, ValidationError, MissingIdError}
    /\ last.op \in {"NewFromJSON", "NewFromGob"} =>
            /\ last.ret = (last.err = NoErr)
            /\ last.err # NoErr => Obj = ZeroObject

\* {"id":"x",} passed the validation and failed in the decoder
C13_Witness ==
    /\ last.op = "NewFromJSON"
    /\ last.args[1] = <<"{">> \o IdToken \o <<":", QUOTE, "x", QUOTE, ",", "}">>
    /\ isDataObjectJSON(last.args[1])
    /\ last.err = Unmarshal(last.args[1]).err
    /\ last.err # NoErr
    /\ last.ret = FALSE

MissingGobIdError == "invalid gob data: missing id"

\* C14: NewFromGob returns a nil object and an error for bytes that do not
\* decode to a string-to-string mapping; a nil object and "invalid gob data:
\* missing id" when the decoded mapping has no id or an empty one; otherwise
\* a clean container whose Data() is exactly the decoded mapping.
C14_NewFromGobOutcomes ==
    last.op = "NewFromGob" =>
        LET g == GobDecode(last.args[1])
        IN  IF g.err # NoErr
            THEN last.ret = FALSE /\ last.err = g.err
            ELSE IF ~MapHas(g.m, propertyId) \/ g.m.kv[propertyId] = <<>>
            THEN last.ret = FALSE /\ last.err = MissingGobIdError
            ELSE /\ last.ret = TRUE
                 /\ last.err = NoErr
                 /\ Data(Obj).val = g.m
                 /\ DataChanged(Obj).val = EmptyMap
                 /\ ~IsDirty(Obj).val

\* a payload that decodes to a mapping with two keys, the id empty
C14_Witness ==
    /\ last.op = "NewFromGob"
    /\ GobDecode(last.args[1]).err = NoErr
    /\ MapLen(GobDecode(last.args[1]).m) = 2
    /\ MapHas(GobDecode(last.args[1]).m, propertyId)
    /\ last.err = MissingGobIdError
    /\ last.ret = FALSE

(***************************************************************************)
(* Properties of the methods, stated for a call made in a reachable state  *)
(***************************************************************************)
\* Set(key, value) would fail in its transformer step
SerializeFails(o, key, value) ==
    /\ GetTransformer(o, key) # NoTransformer
    /\ Serialize(GetTransformer(o, key), value).err # NoErr

\* C15: in every reachable state, a Set(k, v) whose transformer fails to
\* serialize v returns the transformer's error and leaves Data() and
\* DataChanged() as they were, so a clean container stays clean; and every
\* such Set that was made did return that error.
C15_FailedSetLeavesStore ==
    /\ \A k \in Keys, v \in Values :
          SerializeFails(Obj, k, v) =>
              LET r == Set(Obj, k, v)
              IN  /\ r.err = Serialize(GetTransformer(Obj, k), v).err
                  /\ Data(r.o).val = Data(Obj).val
                  /\ DataChanged(r.o).val = DataChanged(Obj).val
                  /\ IsDirty(r.o).val = IsDirty(Obj).val
    /\ (last.op = "Set" /\ SerializeFails(Obj, last.args[1], last.args[2])) =>
          last.err = Serialize(GetTransformer(Obj, last.args[1]), last.args[2]).err

\* a Set just failed in Serialize on a clean container that holds data
C15_Witness ==
    /\ last.op = "Set"
    /\ SerializeFails(Obj, last.args[1], last.args[2])
    /\ last.err # NoErr
    /\ MapLen(data) > 0
    /\ ~IsDirty(Obj).val

\* C16: where a key has a transformer, registering another one for it, of
\* the same or of another implementation, returns an error and leaves the
\* first in place; and no call on the container (Set, Get, Hydrate,
\* MarkAsNotDirty, Init, SetData, a registration for another key, ...)
\* removes or replaces a registered transformer.
C16_TransformerStays ==
    /\ [](\A k \in DOMAIN transformers.kv :
            \A t \in TransformerKinds \cup OtherTransformerKinds :
                LET r == SetTransformer(Obj, k, t)
                IN  /\ r.err # NoErr
                    /\ GetTransformer(r.o, k) = transformers.kv[k]
                    /\ r.o.transformers = transformers)
    /\ [][last'.op \notin Constructors =>
            \A k \in DOMAIN transformers.kv :
                GetTransformer(Obj', k) = transformers.kv[k]]_vars

\* a second registration for the id was just refused, the first is in place
C16_Witness ==
    /\ last.op = "SetTransformer"
    /\ last.err = "transformer already set"
    /\ GetTransformer(Obj, last.args[1]) = "enc"
    /\ MapLen(transformers) = 2

\* C17 as stated: no error is swallowed; when SetData applies Set to an
\* entry whose transformer fails to serialize the value, the caller of
\* SetData is told.  (SetData does not touch the transformers, so which of
\* its entries failed can be told from the state after the call.)
C17_SetDataReportsFailure ==
    (/\ last.op = "SetData"
     /\ \E k \in DOMAIN last.args[1].kv :
            SerializeFails(Obj, k, last.args[1].kv[k])) =>
        last.err # NoErr

\* the caller's own batch: Set(k, m[k]) for the keys in the order ks,
\* going on after a Set that failed
RECURSIVE SetInOrder(_, _, _)
SetInOrder(o, m, ks) ==
    IF ks = <<>> THEN o
    ELSE SetInOrder(Set(o, Head(ks), m.kv[Head(ks)]).o, m, Tail(ks))

\* C18: in every reachable state and for every mapping m, SetData(m) ends
\* with the same Data() and DataChanged() as Set(k, m[k]) called for the
\* entries of m in any order; every entry that Set accepts is in both
\* mappings afterwards with the value Set stores (the serialized one where
\* the key has a transformer); an empty m changes nothing.
C18_SetDataIsBatchOfSets ==
    \A m \in StringMaps :
        LET a  == SetData(Obj, m)
            da == Data(a).val
            ca == DataChanged(a).val
        IN  /\ \A ks \in Orders(DOMAIN m.kv) :
                  LET b == SetInOrder(Obj, m, ks)
                  IN  /\ da = Data(b).val
                      /\ ca = DataChanged(b).val
                      /\ a.transformers.kv = b.transformers.kv
            /\ \A k \in DOMAIN m.kv :
                  ~SerializeFails(Obj, k, m.kv[k]) =>
                      /\ MapHas(ca, k)
                      /\ ca.kv[k] = MapGet(Set(Obj, k, m.kv[k]).o.data, k)
                      /\ MapGet(da, k) = ca.kv[k]
            /\ MapLen(m) = 0 =>
                  /\ da = Data(Obj).val
                  /\ ca = DataChanged(Obj).val

\* a SetData of two entries was made where the id has a transformer: the
\* other entry is recorded as changed
C18_Witness ==
    /\ last.op = "SetData"
    /\ MapLen(last.args[1]) = 2
    /\ GetTransformer(Obj, propertyId) # NoTransformer
    /\ \E k \in DOMAIN last.args[1].kv :
          /\ k # propertyId
          /\ MapHas(dataChanged, k)
          /\ dataChanged.kv[k] = last.args[1].kv[k]

C20_GetReadsOnly ==
    /\ \A k \in Keys :
          LET r == Get(Obj, k)
          IN  /\ Data(r.o).val = Data(Obj).val
              /\ DataChanged(r.o).val = DataChanged(Obj).val
              /\ (~MapHas(data, k) /\ GetTransformer(Obj, k) = NoTransformer) =>
                    /\ r.val = <<>>
                    /\ r.err = NoErr
                    /\ ~MapHas(r.o.data, k)
    /\ (/\ last.op = "Get"
         /\ ~MapHas(data, last.args[1])
         /\ GetTransformer(Obj, last.args[1]) = NoTransformer) =>
          last.ret = <<>> /\ last.err = NoErr

\* a Get was just made for a key the container, which holds data, lacks
C20_Witness ==
    /\ last.op = "Get"
    /\ MapLen(data) > 0
    /\ ~MapHas(data, last.args[1])
    /\ GetTransformer(Obj, last.args[1]) = NoTransformer
    /\ last.ret = <<>>
    /\ last.err = NoErr

(***************************************************************************)
(* Properties of lazy initialisation and of the read accessors             *)
(***************************************************************************)
\* C21: Init is idempotent and discards nothing: in every reachable state
\* Init leaves the entries of Data(), of DataChanged() and the registered
\* transformers as they were, a second Init changes nothing more, and a
\* value written with Set between two Inits is read back by Get.
C21_InitKeepsState ==
    /\ LET i == Init(Obj)
       IN  /\ Init(i) = i
           /\ i.data.kv = data.kv
           /\ i.dataChanged.kv = dataChanged.kv
           /\ i.transformers.kv = transformers.kv
           /\ Data(i).val = Data(Obj).val
           /\ DataChanged(i).val = DataChanged(Obj).val
           /\ \A k \in Keys : GetTransformer(i, k) = GetTransformer(Obj, k)
    /\ \A k \in Keys, v \in Values :
          GetTransformer(Obj, k) = NoTransformer =>
             LET s == Set(Init(Obj), k, v)
                 g == Get(Init(s.o), k)
             IN  s.err = NoErr /\ g.err = NoErr /\ g.val = v

\* Init was just called on a container that holds a value, a recorded
\* change and a transformer, and all three are still there
C21_Witness ==
    /\ last.op = "Init"
    /\ MapLen(data) = 1
    /\ MapLen(dataChanged) = 1
    /\ MapLen(transformers) = 1

C23_ToJSONIsObjectOfData ==
    LET r == ToJSON(Obj)
        u == Unmarshal(r.val)
        d == Data(Obj).val.kv
    IN  /\ r.err = NoErr
        /\ r.val # <<"n", "u", "l", "l">>
        /\ u.err = NoErr
        /\ u.v.t = "object"
        /\ DOMAIN u.v.v = DOMAIN d
        /\ \A k \in DOMAIN d : u.v.v[k] = JString(d[k])

(***************************************************************************)
(* Properties of the value conversion                                      *)
(***************************************************************************)
\* C24: every attribute of a container built by NewFromJSON is the
\* converted text of the decoded JSON value: a string is stored as it
\* decodes, true and false as "true" and "false", null as the empty string,
\* a number, integers included, as fixed-point text with exactly four
\* decimals (12 as "12.0000"), and a nested object or an array as some
\* non-empty text.
C24_DecodedValuesConverted ==
    (last.op = "NewFromJSON" /\ last.err = NoErr) =>
        LET u == Unmarshal(last.args[1]).v.v
        IN  /\ DOMAIN data.kv = DOMAIN u
            /\ \A k \in DOMAIN u :
                  LET j == u[k]
                      g == Get(Obj, k).val
                  IN  /\ j.t = "string" => g = j.v
                      /\ j.t = "bool" =>
                            g = IF j.v THEN <<"t", "r", "u", "e">>
                                       ELSE <<"f", "a", "l", "s", "e">>
                      /\ j.t = "null" => g = <<>>
                      /\ j.t = "number" =>
                            g = Itoa(j.v) \o <<".", "0", "0", "0", "0">>
                      /\ j.t \in {"object", "array"} => g # <<>>

\* a container was built from a text whose members were an integer and an
\* array: the first reads back with four decimals, the second as text
C24_Witness ==
    /\ last.op = "NewFromJSON"
    /\ last.err = NoErr
    /\ Get(Obj, propertyId).val = <<"1", "2", ".", "0", "0", "0", "0">>
    /\ Get(Obj, <<"x">>).val = <<"[", "0", " ", "<", "n", "i", "l", ">", "]">>

\* C25: the conversion turns a value of either floating-point type, 32-bit
\* or 64-bit, into fixed-point text with exactly four digits after the
\* point, and a value of any signed or unsigned integer type into its plain
\* decimal text.
C25_AnyFloatFourDecimals ==
    last.op = "toString" =>
        /\ last.args[1].t \in FloatTypes =>
              last.ret = FormatInt(last.args[1].v) \o <<".", "0", "0", "0", "0">>
        /\ last.args[1].t \in SignedTypes \cup UnsignedTypes =>
              last.ret = FormatInt(last.args[1].v)

(***************************************************************************)
(* Properties of transformers, of the id and of the dirty flag             *)
(***************************************************************************)
\* what a successful Set(key, value) on o leaves under key, and what Get
\* then answers, t being the transformer of the key or NoTransformer
SetStoresGetReads(o, key, value, t) ==
    LET r == Set(o, key, value)
        g == Get(r.o, key)
        stored == IF t # NoTransformer THEN Serialize(t, value).val ELSE value
        back == IF t # NoTransformer THEN Deserialize(t, stored)
                                     ELSE [val |-> value, err |-> NoErr]
    IN  r.err = NoErr =>
            /\ MapHas(r.o.data, key) /\ MapGet(r.o.data, key) = stored
            /\ MapHas(r.o.dataChanged, key) /\ MapGet(r.o.dataChanged, key) = stored
            /\ g.err = back.err
            /\ g.val = IF back.err = NoErr THEN back.val ELSE <<>>
            /\ \A k \in Keys \ {key} :
                  /\ MapHas(r.o.data, k) = MapHas(Init(o).data, k)
                  /\ MapGet(r.o.data, k) = MapGet(Init(o).data, k)
                  /\ MapHas(r.o.dataChanged, k) = MapHas(Init(o).dataChanged, k)
                  /\ MapGet(r.o.dataChanged, k) = MapGet(Init(o).dataChanged, k)

\* C26: in every reachable state, with a transformer registered for k a
\* successful Set(k, v) stores Serialize(v) under k in Data() and in
\* DataChanged(), and Get(k) returns Deserialize of the stored value; for a
\* key without a transformer the value is stored and read back as given;
\* no other key is touched. Checked with the registered transformer and
\* with either implementation registered on a key that has none.
C26_TransformerOnBothWays ==
    /\ \A k \in Keys, v \in Values :
          /\ SetStoresGetReads(Obj, k, v, GetTransformer(Obj, k))
          /\ GetTransformer(Obj, k) = NoTransformer =>
                \A t \in TransformerKinds \cup OtherTransformerKinds :
                   SetStoresGetReads(SetTransformer(Init(Obj), k, t).o, k, v, t)
    /\ (/\ last.op = "Get"
         /\ last.err = NoErr
         /\ GetTransformer(Obj, last.args[1]) # NoTransformer) =>
          last.ret = Deserialize(GetTransformer(Obj, last.args[1]),
                                 MapGet(data, last.args[1])).val

\* a Set through a transformer just succeeded: both maps hold the
\* serialized bytes and Get gives the value back
C26_Witness ==
    /\ last.op = "Set"
    /\ last.err = NoErr
    /\ GetTransformer(Obj, last.args[1]) # NoTransformer
    /\ MapGet(data, last.args[1]) = Serialize(GetTransformer(Obj, last.args[1]), last.args[2]).val
    /\ MapGet(data, last.args[1]) # last.args[2]
    /\ MapGet(dataChanged, last.args[1]) = MapGet(data, last.args[1])
    /\ Get(Obj, last.args[1]).val = last.args[2]

\* C27 as stated: ID() is Get("id"), SetID(x) is Set("id", x), and after
\* SetID(x) on any container ID() is x and "id" is in DataChanged() with
\* the value x.
C27_SetIDOnAnyContainer ==
    /\ ID(Obj) = Get(Obj, propertyId)
    /\ \A x \in Values :
          LET r == SetID(Obj, x)
          IN  /\ r = Set(Obj, propertyId, x)
              /\ ID(r.o).err = NoErr
              /\ ID(r.o).val = x
              /\ MapHas(r.o.dataChanged, propertyId)
              /\ MapGet(r.o.dataChanged, propertyId) = x

\* C27, amended: ID() is Get("id") and SetID(x) is Set("id", x) in every
\* reachable state. Where "id" has no transformer, SetID(x) returns no
\* error, ID() is then x, the former id is gone and "id" is in
\* DataChanged() with the value x. Where "id" has a transformer, SetID(x)
\* stores Serialize(x) in both mappings and ID() returns Deserialize of it,
\* and when Serialize fails SetID returns that error and the id, Data() and
\* DataChanged() stay as they were.
C27_SetIDIsSetOfId ==
    /\ ID(Obj) = Get(Obj, propertyId)
    /\ \A x \in Values :
          LET r == SetID(Obj, x)
              t == GetTransformer(Obj, propertyId)
          IN  /\ r = Set(Obj, propertyId, x)
              /\ IF t = NoTransformer
                 THEN /\ r.err = NoErr
                      /\ ID(r.o).err = NoErr
                      /\ ID(r.o).val = x
                      /\ Data(r.o).val.kv[propertyId] = x
                      /\ MapHas(r.o.dataChanged, propertyId)
                      /\ MapGet(r.o.dataChanged, propertyId) = x
                 ELSE IF Serialize(t, x).err # NoErr
                 THEN /\ r.err = Serialize(t, x).err
                      /\ ID(r.o) = ID(Init(Obj))
                      /\ Data(r.o).val = Data(Obj).val
                      /\ DataChanged(r.o).val = DataChanged(Obj).val
                 ELSE /\ r.err = NoErr
                      /\ MapGet(r.o.data, propertyId) = Serialize(t, x).val
                      /\ MapGet(r.o.dataChanged, propertyId) = Serialize(t, x).val
                      /\ ID(r.o).err = Deserialize(t, Serialize(t, x).val).err
                      /\ ID(r.o).err = NoErr =>
                            ID(r.o).val = Deserialize(t, Serialize(t, x).val).val
    /\ last.op = "ID" =>
          last.ret = Get(Obj, propertyId).val /\ last.err = Get(Obj, propertyId).err
    /\ (/\ last.op = "SetID"
         /\ GetTransformer(Obj, propertyId) = NoTransformer) =>
          /\ last.err = NoErr
          /\ ID(Obj).val = last.args[1]
          /\ MapGet(dataChanged, propertyId) = last.args[1]

\* SetID was just called on a container without a transformer for the id:
\* the id reads back, it is the only recorded change, and the container
\* holds another attribute
C27_Witness ==
    /\ last.op = "SetID"
    /\ last.err = NoErr
    /\ GetTransformer(Obj, propertyId) = NoTransformer
    /\ last.args[1] \notin GeneratedIDs
    /\ ID(Obj).val = last.args[1]
    /\ dataChanged.kv = [k \in {propertyId} |-> last.args[1]]
    /\ MapLen(data) > 1

DeserializeFails(o, key) ==
    /\ GetTransformer(o, key) # NoTransformer
    /\ Deserialize(GetTransformer(o, key), MapGet(o.data, key)).err # NoErr

\* C29: in every reachable state, a Get(k) whose transformer fails to
\* deserialize the stored value returns the empty string together with the
\* transformer's error, never the stored value, and leaves Data() and
\* DataChanged() as they were; and every such Get that was made did so.
C29_FailedGetReturnsEmpty ==
    /\ \A k \in Keys :
          /\ DeserializeFails(Obj, k) =>
                LET g == Get(Obj, k)
                IN  /\ g.val = <<>>
                    /\ g.err = Deserialize(GetTransformer(Obj, k), MapGet(data, k)).err
                    /\ Data(g.o).val = Data(Obj).val
                    /\ DataChanged(g.o).val = DataChanged(Obj).val
          /\ GetTransformer(Obj, k) = NoTransformer =>
                \A t \in TransformerKinds \cup OtherTransformerKinds :
                   LET o == SetTransformer(Init(Obj), k, t).o
                       g == Get(o, k)
                   IN  DeserializeFails(o, k) =>
                          /\ g.val = <<>>
                          /\ g.err = Deserialize(t, MapGet(data, k)).err
                          /\ Data(g.o).val = Data(Obj).val
                          /\ DataChanged(g.o).val = DataChanged(Obj).val
    /\ (last.op = "Get" /\ DeserializeFails(Obj, last.args[1])) =>
          /\ last.ret = <<>>
          /\ last.err = Deserialize(GetTransformer(Obj, last.args[1]),
                                    MapGet(data, last.args[1])).err

\* a Get just failed in Deserialize on a key that holds a non-empty value
C29_Witness ==
    /\ last.op = "Get"
    /\ DeserializeFails(Obj, last.args[1])
    /\ MapGet(data, last.args[1]) # <<>>
    /\ last.ret = <<>>
    /\ last.err # NoErr

(***************************************************************************)
(* Properties of the validation and white space                            *)
(***************************************************************************)
\* C30 as stated: the validation looks at the trimmed text: white space
\* around a JSON object that is accepted without it does not make
\* NewFromJSON reject it, and white space around "", "{}" or "null" does
\* not make it accept them.
C30_ValidationOnTrimmedText ==
    last.op = "NewFromJSON" =>
        LET t == TrimSpace(last.args[1])
        IN  /\ isDataObjectJSON(t) => last.err # ValidationError
            /\ t \in {<<>>, <<"{", "}">>, <<"n", "u", "l", "l">>} =>
                  last.err = ValidationError /\ last.ret = FALSE

\* C30, amended: the validation looks at the text as given. A text with
\* white space before or after it is always rejected with the validation
\* error, also when the text between the blanks would be accepted; so white
\* space around "", "{}" or "null" does not make them accepted; and a text
\* without white space around it is rejected by the validation exactly when
\* it fails the three checks.
C30_ValidationOnGivenText ==
    last.op = "NewFromJSON" =>
        LET s == last.args[1]
            t == TrimSpace(s)
        IN  /\ s # t => last.err = ValidationError /\ last.ret = FALSE
            /\ t \in {<<>>, <<"{", "}">>, <<"n", "u", "l", "l">>} =>
                  last.err = ValidationError /\ last.ret = FALSE
            /\ s = t => (last.err = ValidationError <=> ~isDataObjectJSON(t))

\* a well-formed object with an id, accepted on its own, was rejected for
\* the blank that follows it
C30_Witness ==
    /\ last.op = "NewFromJSON"
    /\ last.args[1] = <<"{">> \o IdToken \o <<":", QUOTE, "x", QUOTE, "}", " ">>
    /\ isDataObjectJSON(TrimSpace(last.args[1]))
    /\ NewFromJSON(TrimSpace(last.args[1])).err = NoErr
    /\ last.err = ValidationError
    /\ last.ret = FALSE

(***************************************************************************)
(* Properties of change tracking                                           *)
(***************************************************************************)
\* what a successful Set(key, value) on o stores under key
StoredBySet(o, key, value) ==
    IF GetTransformer(o, key) # NoTransformer
    THEN Serialize(GetTransformer(o, key), value).val
    ELSE value

ChangedWithinValues(o) ==
    \A k \in DOMAIN o.dataChanged.kv :
        MapHas(o.data, k) /\ o.data.kv[k] = o.dataChanged.kv[k]

C33_HydrateSharesMap ==
    [][LET op   == last'.op
           m    == MapAt(mem.heap, mem.m)
           m2   == MapAt(mem'.heap, mem'.m)
           here == mem.data = mem.m
       IN  /\ (op = "Hydrate" /\ last'.args[1] = "m") => mem'.data = mem'.m
           /\ (here /\ m # EmptyKV) =>
                 /\ op = "Set" =>
                       /\ MapHas(MkMap(m2), last'.args[1])
                       /\ m2[last'.args[1]] = last'.args[2]
                 /\ op = "Data" => mem'.got = mem'.m
                 /\ op # "Hydrate" => mem'.data = mem'.m
           /\ (here /\ m = EmptyKV /\ op \in {"Set", "Data", "DataChanged"}) =>
                 /\ mem'.data # mem'.m
                 /\ mem'.data # NilAddr
           /\ (mem.m # NilAddr /\ m = EmptyKV) => m2 = EmptyKV
           /\ op # "make" => (mem'.m = NilAddr <=> mem.m = NilAddr)]_vars

\* a Set on a container hydrated with the caller's map {id: x} has put a
\* second entry into that very map
C33_Witness ==
    /\ last.op = "Set"
    /\ mem.m # NilAddr
    /\ mem.data = mem.m
    /\ DOMAIN MapAt(mem.heap, mem.m) = Keys
    /\ MapAt(mem.heap, mem.m)[propertyId] = <<"x">>
    /\ data = MkMap(MapAt(mem.heap, mem.m))

\* C34 as stated: MarkAsNotDirty gives the field a new empty map and leaves
\* the old one as it is, and a map the caller got from DataChanged() before
\* the checkpoint is not affected by any later Set.
C34_SnapshotNeverAffected ==
    [][LET c  == MapAt(mem.heap, mem.changed)
           c2 == MapAt(mem'.heap, mem'.changed)
       IN  /\ last'.op = "MarkAsNotDirty" =>
                 /\ mem'.dataChanged \notin {NilAddr, mem'.changed, mem'.data,
                                              mem'.m, mem'.got}
                 /\ MapAt(mem'.heap, mem'.dataChanged) = EmptyKV
                 /\ c2 = c
           /\ (/\ last'.op = "Set"
               /\ mem.changed \notin {NilAddr, mem.dataChanged}) => c2 = c]_vars

\* C34, amended: MarkAsNotDirty gives the field a new empty map and leaves
\* the old one as it is, and a map the caller got from DataChanged() before
\* the checkpoint is not affected by a later Set unless the caller has
\* passed that map to Hydrate, in which case it is the values map and each
\* Set writes into it.
C34_SnapshotKeptUnlessHydrated ==
    [][LET c  == MapAt(mem.heap, mem.changed)
           c2 == MapAt(mem'.heap, mem'.changed)
       IN  /\ last'.op = "MarkAsNotDirty" =>
                 /\ mem'.dataChanged \notin {NilAddr, mem'.changed, mem'.data,
                                              mem'.m, mem'.got}
                 /\ MapAt(mem'.heap, mem'.dataChanged) = EmptyKV
                 /\ c2 = c
           /\ (/\ last'.op = "Set"
               /\ mem.changed \notin {NilAddr, mem.dataChanged}) =>
                 IF mem.changed = mem.data /\ c # EmptyKV
                 THEN c2 = View(mem'.heap, mem'.data).kv
                      /\ c2[last'.args[1]] = last'.args[2]
                 ELSE c2 = c]_vars

\* after a checkpoint a Set was made: the map the caller got from
\* DataChanged() before still holds the old change, the field's map the
\* new one
C34_Witness ==
    /\ last.op = "Set"
    /\ mem.changed \notin {NilAddr, mem.dataChanged, mem.data}
    /\ DOMAIN MapAt(mem.heap, mem.changed) = {propertyId}
    /\ DOMAIN dataChanged.kv = Keys \ {propertyId}
    /\ DOMAIN data.kv = Keys

\* C35: NewFromJSON returns, for every text, either an object and no error
\* or no object and an error, and never fails converting the decoded value
\* to a map: a text that decodes to something other than an object (an
\* array, a number, a string, null) does not start with "{" and is rejected
\* by the validation before it is decoded; a text that starts with "{" and
\* decodes, decodes to an object.
C35_NewFromJSONTotal ==
    last.op = "NewFromJSON" =>
        LET s == last.args[1]
            u == Unmarshal(s)
        IN  /\ last.ret \in BOOLEAN
            /\ last.ret <=> last.err = NoErr
            /\ last.err # "panic: interface conversion"
            /\ (u.err = NoErr /\ u.v.t # "object") =>
                  /\ ~isDataObjectJSON(s)
                  /\ last.err = ValidationError
            /\ (u.err = NoErr /\ HasPrefix(s, <<"{">>)) => u.v.t = "object"
            /\ isDataObjectJSON(s) => HasPrefix(s, <<"{">>)

\* the text ["id"] decodes to an array and is rejected by the validation
C35_Witness ==
    /\ last.op = "NewFromJSON"
    /\ Unmarshal(last.args[1]).err = NoErr
    /\ Unmarshal(last.args[1]).v.t = "array"
    /\ Contains(last.args[1], <<QUOTE>> \o propertyId \o <<QUOTE>>)
    /\ last.ret = FALSE

\* C36: a container returned by NewFromJSON or NewFromGob has a non-empty
\* ID(); a text that passes the validation and decodes, but has "id" only as
\* a value or as a name inside a nested value, is rejected with "invalid
\* json: missing id" and no object.
C36_BuiltContainerHasId ==
    /\ (last.op \in {"NewFromJSON", "NewFromGob"} /\ last.ret = TRUE) =>
          /\ ID(Obj).val # <<>>
          /\ ID(Obj).err = NoErr
          /\ MapHas(data, propertyId)
    /\ last.op = "NewFromJSON" =>
          LET s == last.args[1]
              u == Unmarshal(s)
          IN  (/\ isDataObjectJSON(s)
               /\ u.err = NoErr
               /\ propertyId \notin DOMAIN u.v.v) =>
                  /\ last.err = MissingIdError
                  /\ last.ret = FALSE
                  /\ data = ZeroObject.data

\* {"x":"id"} passed the validation and was rejected after decoding
C36_Witness ==
    /\ last.op = "NewFromJSON"
    /\ last.args[1] = <<"{", QUOTE, "x", QUOTE, ":", QUOTE, "i", "d", QUOTE, "}">>
    /\ isDataObjectJSON(last.args[1])
    /\ last.err = MissingIdError
    /\ last.ret = FALSE

\* C37: SetTransformer(k, t) for a key that has no transformer succeeds in
\* every container state, the zero-value container included: no error, and
\* GetTransformer(k) then returns t.
C37_SetTransformerSucceeds ==
    (last.op = "SetTransformer" /\ last.err # "transformer already set") =>
        /\ last.err = NoErr
        /\ GetTransformer(Obj, last.args[1]) = last.args[2]

\* C38: transformers act in Set and Get only.  Hydrate stores the values it
\* is given, not their serialized form; Data(), DataChanged() and ToJSON give
\* the stored values, not their deserialized form; so for a key with a
\* transformer, Get(k) after Hydrate(m) is Deserialize(m[k]) and Data()[k]
\* is m[k].
C38_TransformersOnlyInSetAndGet ==
    /\ last.op \in {"Hydrate", "NewFromData"} => data = last.args[1]
    /\ Data(Obj).val.kv = data.kv
    /\ DataChanged(Obj).val.kv = dataChanged.kv
    /\ ToJSON(Obj).val = Marshal(data)
    /\ \A m \in StringMaps :
          LET h == Hydrate(Obj, m)
          IN  /\ h.data = m
              /\ \A k \in DOMAIN m.kv :
                    LET t == GetTransformer(h, k)
                        g == Get(h, k)
                    IN  /\ Data(h).val.kv[k] = m.kv[k]
                        /\ t = NoTransformer => g.val = m.kv[k]
                        /\ t # NoTransformer =>
                              /\ g.err = Deserialize(t, m.kv[k]).err
                              /\ g.val = Deserialize(t, m.kv[k]).val

\* a container with a transformer on a key was hydrated with the serialized
\* value: Get gives the value, Data() and ToJSON the serialized one
C38_Witness ==
    /\ last.op = "Hydrate"
    /\ \E k \in Keys :
          /\ GetTransformer(Obj, k) = "enc"
          /\ MapHas(last.args[1], k)
          /\ last.args[1].kv[k] = <<BAD>>
          /\ Get(Obj, k).val = <<"x">>
          /\ Data(Obj).val.kv[k] = <<BAD>>

\* the caller's mutex is free
Quiet == \A t \in Threads : run.pc[t] = "idle"

\* C39: when the goroutines hold a mutex around each call, then between
\* calls every key Set has stored since the last MarkAsNotDirty is in the
\* changed map (and in the values map), in every interleaving, and the
\* runtime never aborts; and a key Set has stored leaves the changed map
\* without a checkpoint only when the goroutines hold no mutex, by the
\* assignment of Init (which every call but MarkAsNotDirty runs, the reading
\* calls included) made after its test had found the map empty.
C39_LockedSetsAreTracked ==
    /\ [](run.locked =>
            /\ ~run.fatal
            /\ Quiet => \A k \in run.set :
                          /\ MapHas(dataChanged, k)
                          /\ MapHas(data, k))
    /\ [][\A k \in run.set :
            (/\ MapHas(dataChanged, k)
             /\ ~MapHas(dataChanged', k)
             /\ k \in run'.set) =>
                /\ ~run.locked
                /\ \E t \in Threads :
                      /\ run.pc[t] = "newChanged"
                      /\ run'.pc[t] = "initTransformers"]_vars

\* without the mutex: Set stored the key, IsDirty's Init then installed the
\* new map it had decided on before, and IsDirty returned false; the value
\* is in Data(), the key is not in DataChanged()
C39_Witness ==
    /\ ~run.locked
    /\ ~run.fatal
    /\ Quiet
    /\ last.op = "IsDirty"
    /\ last.ret = FALSE
    /\ \E k \in run.set :
          /\ MapGet(data, k) = RaceValue
          /\ ~MapHas(dataChanged, k)

\* C40: mapStringAnyToMapStringString gives a map with the keys of its
\* input, as many entries, each the toString of the input's value, and for
\* an input without entries an empty map that is not nil; so NewFromJSON
\* never takes its "invalid data from json" return, and the container it
\* builds holds the converted map.
C40_ConversionKeepsKeys ==
    last.op = "NewFromJSON" =>
        LET u == Unmarshal(last.args[1])
        IN  /\ last.err # "invalid data from json"
            /\ (u.err = NoErr /\ u.v.t = "object") =>
                  LET d == mapStringAnyToMapStringString(u.v.v)
                  IN  /\ ~d.nil
                      /\ DOMAIN d.kv = DOMAIN u.v.v
                      /\ MapLen(d) = Cardinality(DOMAIN u.v.v)
                      /\ \A k \in DOMAIN u.v.v : d.kv[k] = toString(u.v.v[k])
                      /\ last.err = NoErr => data = d

\* a text with two members was decoded and converted: the container holds
\* two entries, the number as text with four decimals
C40_Witness ==
    /\ last.op = "NewFromJSON"
    /\ last.err = NoErr
    /\ DOMAIN Unmarshal(last.args[1]).v.v = {propertyId, <<"x">>}
    /\ Unmarshal(last.args[1]).v.v[<<"x">>].t = "number"
    /\ DOMAIN data.kv = {propertyId, <<"x">>}
    /\ data.kv[<<"x">>] = <<"0", ".", "0", "0", "0", "0">>

====
